---- MODULE Spec2Model ----
(***************************************************************************)
(* State-machine model of k_seq.estimate.least_squares: the SingleFitter   *)
(* estimator (construction, _fit / point_estimate, run_bootstrap, fit with *)
(* its resume-from-disk and save-to-disk steps) and the FitResults record  *)
(* with its JSON form (to_json / from_json).                               *)
(*                                                                         *)
(* Conventions of the model                                                *)
(*   - Python None is the empty tuple <<>>; a present value v is <<v>>.    *)
(*   - A float is a small integer code c >= 0: c \div 2 identifies the     *)
(*     first ten decimals of the value and c % 2 = 1 says that non-zero    *)
(*     digits follow the tenth decimal.  Code 0 is exactly 0.0.  NaN is a  *)
(*     separate code.                                                      *)
(*   - A numpy / pandas / builtin object is a record                       *)
(*     [typ, index, columns, data]; typ is one of "list", "ndarray",       *)
(*     "Series", "DataFrame", "str".                                       *)
(***************************************************************************)
EXTENDS Integers, Sequences, FiniteSets, TLC

VARIABLES
    caller,     \* the arguments the caller handed to SingleFitter(...), as the caller still holds them
    est,        \* the SingleFitter instance (est.state = "none" before construction)
    results,    \* est.results, the FitResults owned by the estimator
    disk,       \* the file system: path -> file
    ret,        \* what the latest call did and returned
    heap,       \* the array objects by address, and who holds which address
    batch       \* the batch fitter: its table, its tasks, their results, its streaming directory

vars == <<caller, est, results, disk, ret, heap, batch>>

(***************************************************************************)
(* Bounds of the model.                                                    *)
(***************************************************************************)
MaxLen == 4         \* longest x_data / y_data / sigma the caller passes
MaxBootstrap == 3   \* largest bootstrap_num
MaxRuns == 2        \* most runs of fit() on one batch

(***************************************************************************)
(* Values.                                                                 *)
(***************************************************************************)
None == <<>>
Some(v) == <<v>>
IsNone(o) == o = <<>>
Get(o) == o[1]

NaN == -1           \* np.nan
One == 2            \* 1.0, the fill value of np.ones

Obj(typ, index, columns, data) ==
    [typ |-> typ, index |-> index, columns |-> columns, data |-> data]

RangeLabels(n) == [i \in 1..n |-> ToString(i - 1)]

PyList(vals) == Obj("list", <<>>, <<>>, vals)
NdArray(vals) == Obj("ndarray", <<>>, <<>>, vals)
Series(index, vals) == Obj("Series", index, <<>>, vals)
DataFrame(index, columns, rows) == Obj("DataFrame", index, columns, rows)
Str(s) == Obj("str", <<>>, <<>>, <<s>>)

Len_(o) == Len(o.data)

\* The subsequence of s at the positions where mask is TRUE, in order.
RECURSIVE Compress(_, _)
Compress(s, mask) ==
    IF s = <<>> THEN <<>>
    ELSE (IF Head(mask) THEN <<Head(s)>> ELSE <<>>) \o Compress(Tail(s), Tail(mask))

(***************************************************************************)
(* SingleFitter.__init__                                                   *)
(***************************************************************************)
\* np.array(x) for a list; any other container is kept as it is.
AsArray(o) == IF o.typ = "list" THEN NdArray(o.data) ELSE o

\* ZeroMask with the exclude_zero flag ignored: zeros are always filtered.
ZeroMaskAlways(x_data, y_data, exclude_zero) ==
    [i \in 1..Len_(y_data) |-> y_data.data[i] # 0]

\* mask = y_data != 0 with exclude_zero, np.repeat(True, x_data.shape[0]) without.
ZeroMask(x_data, y_data, exclude_zero) ==
    IF exclude_zero
    THEN [i \in 1..Len_(y_data) |-> y_data.data[i] # 0]
    ELSE [i \in 1..Len_(x_data) |-> TRUE]

\* o[mask]: boolean-mask indexing builds a new object; the mask must be as long as o.
CanIndex(o, mask) == Len(mask) = Len_(o)
Masked(o, mask) ==
    Obj(o.typ, IF o.index = <<>> THEN <<>> ELSE Compress(o.index, mask), <<>>, Compress(o.data, mask))

\* StoredSigma without the [mask]: a supplied sigma is stored whole.
StoredSigmaUnmasked(sigma, y_stored, mask) ==
    IF IsNone(sigma) THEN NdArray([i \in 1..Len_(y_stored) |-> One])
    ELSE AsArray(Get(sigma))

\* The sigma stored in config: ones when omitted, else the masked sigma.
StoredSigma(sigma, y_stored, mask) ==
    IF IsNone(sigma) THEN NdArray([i \in 1..Len_(y_stored) |-> One])
    ELSE Masked(AsArray(Get(sigma)), mask)

\* The model function is opaque; get_func_params(model, required_only=True)[1:]
\* gives the names of its parameters after x.
Models == {"exp", "byo"}
get_func_params(model) == IF model = "exp" THEN <<"k">> ELSE <<"k", "A">>

NoEstimator ==
    [state |-> "none", model |-> "exp", parameters |-> <<>>,
     x_data |-> NdArray(<<>>), y_data |-> NdArray(<<>>), sigma |-> NdArray(<<>>),
     x_label |-> None, y_label |-> None, exclude_zero |-> FALSE, metrics |-> None, init_guess |-> None, rnd_seed |-> None,
     bootstrap |-> None, bootstrap_num |-> 0, bs_record_num |-> Some(0),
     replicates |-> None, conv_reps |-> 0,
     save_to |-> None, overwrite |-> FALSE]

\* No address: the holder has no object under that name.
NoRefs == [x_data |-> 0, y_data |-> 0, sigma |-> 0]

\* AttrScope(keys=[...]): every key present and None.
EmptyResults(data) ==
    [point_estimation |-> [params |-> None, pcov |-> None],
     uncertainty |-> [summary |-> None, bs_records |-> None, rep_results |-> None],
     convergence |-> [summary |-> None, records |-> None],
     data |-> data]

NoData == [x_data |-> None, y_data |-> None, sigma |-> None, x_label |-> None, y_label |-> None]

\* FitResults(estimator): the fit input is copied from the estimator.
NewResults(e) ==
    EmptyResults([x_data |-> Some(e.x_data), y_data |-> Some(e.y_data), sigma |-> Some(e.sigma),
                  x_label |-> e.x_label, y_label |-> e.y_label])

NoRet == [op |-> "none", raised |-> None]
NoHeap == [objs |-> <<>>, caller |-> NoRefs, estimator |-> NoRefs, results |-> NoRefs]

\* The arguments of a constructor call that passes only x_data, y_data and model:
\* every other argument has its default (__init__'s signature).
DefaultArgs(x, y, model) ==
    [x_data |-> x, y_data |-> y, sigma |-> None, exclude_zero |-> FALSE, model |-> model,
     x_label |-> None, y_label |-> None, metrics |-> None, init_guess |-> None, rnd_seed |-> None,
     bootstrap_num |-> 0, bs_record_num |-> Some(0),
     replicates |-> None, conv_reps |-> 0,
     save_to |-> None, overwrite |-> FALSE,
     given |-> {}]      \* the optional keywords the caller wrote out

\* The estimator a successful constructor call builds.
Constructed(a) ==
    LET x == AsArray(a.x_data)
        y == AsArray(a.y_data)
        mask == ZeroMask(x, y, a.exclude_zero)
        xs == Masked(x, mask)
        ys == Masked(y, mask)
        hasBs == a.bootstrap_num > 0 /\ Len_(xs) > 1
        recNum == IF hasBs /\ IsNone(a.bs_record_num) THEN Some(0) ELSE a.bs_record_num
    IN  [state |-> "ok", model |-> a.model, parameters |-> get_func_params(a.model),
         x_data |-> xs, y_data |-> ys, sigma |-> StoredSigma(a.sigma, ys, mask),
         x_label |-> a.x_label, y_label |-> a.y_label, exclude_zero |-> a.exclude_zero,
         metrics |-> a.metrics, init_guess |-> a.init_guess, rnd_seed |-> a.rnd_seed,
         bootstrap |-> IF hasBs THEN Some([bootstrap_num |-> a.bootstrap_num, bs_record_num |-> Get(recNum)])
                       ELSE None,
         bootstrap_num |-> a.bootstrap_num, bs_record_num |-> recNum,
         replicates |-> a.replicates, conv_reps |-> a.conv_reps,
         save_to |-> a.save_to, overwrite |-> a.overwrite]

\* ConstructError with the two checks in the other order: sigma is indexed first.
ConstructErrorSigmaFirst(a) ==
    IF ~IsNone(a.sigma)
       /\ ~CanIndex(Get(a.sigma), ZeroMask(AsArray(a.x_data), AsArray(a.y_data), a.exclude_zero))
    THEN Some("IndexError")
    ELSE IF Len_(a.x_data) # Len_(a.y_data) THEN Some("ValueError") ELSE None

\* The exception the constructor raises on these arguments, None if it succeeds.
ConstructError(a) ==
    IF Len_(a.x_data) # Len_(a.y_data) THEN Some("ValueError")
    ELSE IF ~IsNone(a.sigma)
            /\ ~CanIndex(Get(a.sigma), ZeroMask(AsArray(a.x_data), AsArray(a.y_data), a.exclude_zero))
         THEN Some("IndexError")
         ELSE None

\* Objects by address.  A step of __init__ on the heap h returns the heap after
\* it and the address of its result.
\* np.array(x) for a list is a new array; any other container stays the object it is.
ArrayOf(h, r) ==
    IF h[r].typ = "list" THEN [heap |-> Append(h, NdArray(h[r].data)), ref |-> Len(h) + 1]
    ELSE [heap |-> h, ref |-> r]
\* o[mask]: indexing with a boolean mask builds a new object, also when the mask keeps everything.
Index(h, r, mask) == [heap |-> Append(h, Masked(h[r], mask)), ref |-> Len(h) + 1]
\* np.ones(n)
Ones(h, n) == [heap |-> Append(h, NdArray([i \in 1..n |-> One])), ref |-> Len(h) + 1]

\* Copy that hands back the object itself.
CopyAliased(h, r) == [heap |-> h, ref |-> r]

\* o.copy(): a new object with the same content.
Copy(h, r) == [heap |-> Append(h, h[r]), ref |-> Len(h) + 1]

\* The objects the caller passes: x_data, y_data and, when given, sigma.
CallerHeap(a) ==
    [NoHeap EXCEPT !.objs = <<a.x_data, a.y_data>> \o (IF IsNone(a.sigma) THEN <<>> ELSE <<Get(a.sigma)>>),
                   !.caller = [x_data |-> 1, y_data |-> 2, sigma |-> IF IsNone(a.sigma) THEN 0 ELSE 3]]

\* The objects after a successful __init__: the arrays it converts and indexes,
\* self.x_data, self.y_data, self.config.sigma, and the copies FitResults takes.
HeapAfterInit(a) ==
    LET h0 == CallerHeap(a)
        x1 == ArrayOf(h0.objs, h0.caller.x_data)
        y1 == ArrayOf(x1.heap, h0.caller.y_data)
        mask == ZeroMask(y1.heap[x1.ref], y1.heap[y1.ref], a.exclude_zero)
        x2 == Index(y1.heap, x1.ref, mask)
        y2 == Index(x2.heap, y1.ref, mask)
        s2 == IF IsNone(a.sigma) THEN Ones(y2.heap, Len_(y2.heap[y2.ref]))
              ELSE LET s1 == ArrayOf(y2.heap, h0.caller.sigma) IN Index(s1.heap, s1.ref, mask)
        rx == Copy(s2.heap, x2.ref)
        ry == Copy(rx.heap, y2.ref)
        rs == Copy(ry.heap, s2.ref)
    IN  [objs |-> rs.heap, caller |-> h0.caller,
         estimator |-> [x_data |-> x2.ref, y_data |-> y2.ref, sigma |-> s2.ref],
         results |-> [x_data |-> rx.ref, y_data |-> ry.ref, sigma |-> rs.ref]]

\* The caller's objects after the call: __init__ converts and indexes into new
\* objects (np.array, x_data[mask]) and assigns to none of its arguments.
CallerAfterInit(a) == a

Construct(a) ==
    /\ est.state = "none"
    /\ caller' = CallerAfterInit(a)
    /\ IF IsNone(ConstructError(a))
       THEN /\ est' = Constructed(a)
            /\ results' = NewResults(Constructed(a))
            /\ ret' = [op |-> "init", raised |-> None, args |-> a]
       ELSE /\ est' = [NoEstimator EXCEPT !.state = "failed"]
            /\ results' = results
            /\ ret' = [op |-> "init", raised |-> ConstructError(a), args |-> a]
    /\ heap' = IF IsNone(ConstructError(a)) THEN HeapAfterInit(a) ELSE CallerHeap(a)
    /\ UNCHANGED <<disk, batch>>

(***************************************************************************)
(* SingleFitter._fit / point_estimate                                      *)
(***************************************************************************)
\* update_none(arg, default)
update_none(arg, default) == IF IsNone(arg) THEN default ELSE arg

\* What the try block of _fit meets: the exception raised inside it ("none" if it
\* runs through), where it was raised (in curve_fit or in a metric function), and
\* the values curve_fit and the metric functions produce when they return.
FitVals == {3, 4}
CovVals == {6}
Attempts(P, M) ==
    [exc : {"none"}, at : {"none"}, params : [1..P -> FitVals], cov : CovVals, mvals : [1..M -> {5}]]
    \cup [exc : {"RuntimeError", "ValueError", "Other"}, at : {"curve_fit"},
          params : {[i \in 1..P |-> 3]}, cov : CovVals, mvals : {[i \in 1..M |-> 5]}]
    \cup (IF M = 0 THEN {}
          ELSE [exc : {"RuntimeError", "ValueError", "Other"}, at : {"metric"},
                params : {[i \in 1..P |-> 3]}, cov : CovVals, mvals : {[i \in 1..M |-> 5]}])

\* np.full(fill_value=np.nan, shape=...) under the parameter labels.
NanParams(parameters) == Series(parameters, [i \in 1..Len(parameters) |-> NaN])
\* NanCov with the columns left to pandas: a range index in place of the names.
NanCovDefaultColumns(parameters) ==
    DataFrame(parameters, RangeLabels(Len(parameters)),
              [i \in 1..Len(parameters) |-> [j \in 1..Len(parameters) |-> NaN]])

NanCov(parameters) ==
    DataFrame(parameters, parameters,
              [i \in 1..Len(parameters) |-> [j \in 1..Len(parameters) |-> NaN]])
NanMetrics(metrics) ==
    IF IsNone(metrics) THEN None
    ELSE Some(Series(Get(metrics), [i \in 1..Len(Get(metrics)) |-> NaN]))

\* Handled without the bare except: only the two named exceptions are caught.
HandledNamedOnly(exc) == exc \in {"RuntimeError", "ValueError"}

\* The three except clauses of _fit: which exceptions of the try block are handled
\* (RuntimeError, ValueError, and the bare except for everything else).
Handled(exc) == exc \in {"RuntimeError", "ValueError", "Other"}

\* _fit with a try block of its own around the metrics: a metric that raises
\* costs the metrics only, params and pcov stay what curve_fit returned.
FitDictKeepsSolverValues(parameters, metrics, att) ==
    IF att.exc = "none" \/ att.at = "metric"
    THEN [params |-> Series(parameters, att.params),
          pcov |-> DataFrame(parameters, parameters,
                             [i \in 1..Len(parameters) |-> [j \in 1..Len(parameters) |-> att.cov]]),
          metrics |-> IF att.exc = "none"
                      THEN IF IsNone(metrics) THEN None ELSE Some(Series(Get(metrics), att.mvals))
                      ELSE NanMetrics(metrics)]
    ELSE [params |-> NanParams(parameters),
          pcov |-> NanCov(parameters),
          metrics |-> NanMetrics(metrics)]

\* The dictionary _fit returns for the arguments in effect and what the try block met.
FitDict(parameters, metrics, att) ==
    IF att.exc = "none"
    THEN [params |-> Series(parameters, att.params),
          pcov |-> DataFrame(parameters, parameters,
                             [i \in 1..Len(parameters) |-> [j \in 1..Len(parameters) |-> att.cov]]),
          metrics |-> IF IsNone(metrics) THEN None ELSE Some(Series(Get(metrics), att.mvals))]
    ELSE [params |-> NanParams(parameters),
          pcov |-> NanCov(parameters),
          metrics |-> NanMetrics(metrics)]

\* The keyword arguments of one _fit call: None where the caller passes nothing.
NoOverrides ==
    [model |-> None, metrics |-> None, init_guess |-> None,
     x_data |-> None, y_data |-> None, sigma |-> None]

\* _fit without the length test: the sigma in effect is handed on whatever its length.
DataInEffectKeepsSigma(e, kw) ==
    [x_data |-> Get(update_none(kw.x_data, Some(e.x_data))),
     y_data |-> Get(update_none(kw.y_data, Some(e.y_data))),
     sigma |-> update_none(kw.sigma, Some(e.sigma))]

\* x_data, y_data and sigma in effect for one _fit call: the call's, else the
\* estimator's; a sigma of another length than x_data is replaced by None.
DataInEffect(e, kw) ==
    LET x_data == Get(update_none(kw.x_data, Some(e.x_data)))
        y_data == Get(update_none(kw.y_data, Some(e.y_data)))
        sigma == Get(update_none(kw.sigma, Some(e.sigma)))
    IN  [x_data |-> x_data, y_data |-> y_data,
         sigma |-> IF Len_(x_data) # Len_(sigma) THEN None ELSE Some(sigma)]

\* _fit with the call's x_data, y_data and sigma assigned to the estimator.
EstimatorAfterFitStoresOverrides(e, kw) ==
    [e EXCEPT !.x_data = DataInEffect(e, kw).x_data, !.y_data = DataInEffect(e, kw).y_data,
              !.sigma = Get(update_none(kw.sigma, Some(e.sigma)))]

\* The estimator after _fit: model, x_data, y_data, sigma, bounds, metrics and
\* init_guess are rebound as local names only; no attribute of self is assigned.
EstimatorAfterFit(e, kw) == e

_fit(e, kw, att) ==
    LET model == update_none(kw.model, Some(e.model))
        parameters == get_func_params(Get(model))
        metrics == update_none(kw.metrics, e.metrics)
    IN  [raised |-> IF att.exc = "none" \/ Handled(att.exc) THEN None ELSE Some(att.exc),
         value |-> FitDict(parameters, metrics, att),
         parameters |-> parameters, metrics |-> metrics]

MetricNames(e, kw) ==
    LET m == update_none(kw.metrics, e.metrics) IN IF IsNone(m) THEN <<>> ELSE Get(m)

\* bool(obj) as `not init_guess` evaluates it: a list is true when it is not
\* empty; numpy gives an array of one element the truth of that element and
\* raises ValueError for an array of more than one.
Truth(o) ==
    IF o.typ = "ndarray"
    THEN IF Len_(o) > 1 THEN "raises"
         ELSE IF Len_(o) = 1 /\ o.data[1] # 0 THEN "true" ELSE "false"
    ELSE IF Len_(o) > 0 THEN "true" ELSE "false"

\* Values np.random.random() returns, in [0, 1).
Draws == {0, 1}

\* The guess _fit hands to curve_fit as p0: the call's init_guess, the
\* constructor's where the call passes None, and one np.random.random() per
\* parameter (draw) where `not init_guess` holds; p0 is None where that test
\* raises and curve_fit is not reached.
InitGuess(e, kw, draw) ==
    LET init_guess == update_none(kw.init_guess, e.init_guess)
        truth == IF IsNone(init_guess) THEN "false" ELSE Truth(Get(init_guess))
    IN  [raised |-> truth = "raises", drawn |-> truth = "false",
         p0 |-> IF truth = "raises" THEN None
                ELSE IF truth = "false" THEN Some(PyList(draw)) ELSE init_guess]

\* What the try block meets with this guess: the ValueError of the truth test,
\* else what curve_fit and the metrics do; curve_fit calls model(x, *p0), which
\* fails for a p0 that has not one value per parameter of the model.
TryAttempts(P, M, guess) ==
    IF guess.raised
    THEN {[exc |-> "ValueError", at |-> "init_guess", params |-> [i \in 1..P |-> 3],
           cov |-> 6, mvals |-> [i \in 1..M |-> 5]]}
    ELSE IF Len_(Get(guess.p0)) = P THEN Attempts(P, M)
         ELSE {a \in Attempts(P, M) : a.exc \in {"ValueError", "Other"} /\ a.at = "curve_fit"}

\* point_estimate(**kwargs): _fit(**kwargs), nothing of the estimator is assigned.
PointEstimate(kw) ==
    /\ est.state = "ok"
    /\ LET P == Len(get_func_params(Get(update_none(kw.model, Some(est.model)))))
       IN  \E draw \in [1..P -> Draws] :
             LET guess == InitGuess(est, kw, draw)
             IN  \E att \in TryAttempts(P, Len(MetricNames(est, kw)), guess) :
                   LET r == _fit(est, kw, att)
                   IN  ret' = [op |-> "point_estimate", raised |-> r.raised, kw |-> kw,
                               attempt |-> att, drawn |-> guess.drawn, p0 |-> guess.p0,
                               used |-> DataInEffect(est, kw),
                               parameters |-> r.parameters, metrics |-> r.metrics,
                               value |-> IF IsNone(r.raised) THEN Some(r.value) ELSE None]
    /\ est' = EstimatorAfterFit(est, kw)
    /\ UNCHANGED <<caller, results, disk, heap, batch>>

(***************************************************************************)
(* SingleFitter.run_bootstrap                                              *)
(***************************************************************************)
\* The keyword arguments of one run_bootstrap call: None where nothing is passed.
NoBootstrapKw == [bs_record_num |-> None, bootstrap_num |-> None]

\* bs_record_num in effect: the call's, else config.bs_record_num.
RecordNum(e, kw) == update_none(kw.bs_record_num, e.bs_record_num)

\* self.bootstrap after the if / else: built from the call's keywords when the
\* constructor built none, else updated by the keywords that are passed.
BootstrapAfter(e, kw) ==
    IF IsNone(e.bootstrap)
    THEN [bootstrap_num |-> IF IsNone(kw.bootstrap_num) THEN e.bootstrap_num ELSE Get(kw.bootstrap_num),
          bs_record_num |-> 0]
    ELSE IF IsNone(kw.bootstrap_num) THEN Get(e.bootstrap)
         ELSE [Get(e.bootstrap) EXCEPT !.bootstrap_num = Get(kw.bootstrap_num)]

\* Bootstrap.run(): one record row per resample, bootstrap_num of them, and their
\* summary; empty outputs (no row, no summary entry) when bootstrap_num <= 0 or
\* the data has fewer than 2 points.  Row i holds the re-fit of resample i under
\* the estimator's parameter names.
BsVal(i) == i + 2
BootstrapRows(e, b) == IF b.bootstrap_num > 0 /\ Len_(e.x_data) >= 2 THEN b.bootstrap_num ELSE 0
BootstrapRun(e, b) ==
    LET N == BootstrapRows(e, b)
    IN  [summary |-> IF N = 0 THEN Series(<<>>, <<>>)
                     ELSE Series(e.parameters, [j \in 1..Len(e.parameters) |-> 4]),
         results |-> DataFrame(RangeLabels(N), e.parameters,
                               [i \in 1..N |-> [j \in 1..Len(e.parameters) |-> BsVal(i)]])]

\* SubsampleTaken without its lower bound.
SubsampleTakenNoLower(n, rows) == n <= rows

\* 0 <= bs_record_num <= results.shape[0]
SubsampleTaken(n, rows) == 0 <= n /\ n <= rows

\* Row choices that may repeat a row (sampling with replacement).
RowChoicesWithReplacement(n, rows) == [1..n -> 1..rows]

\* results.sample(n=n, replace=False, axis=0): n different rows, in any order.
RowChoices(n, rows) == {f \in [1..n -> 1..rows] : \A i, j \in 1..n : i # j => f[i] # f[j]}

\* The rows of df at the chosen positions, under their own index labels.
TakeRows(df, f) ==
    DataFrame([i \in 1..Len(f) |-> df.index[f[i]]], df.columns, [i \in 1..Len(f) |-> df.data[f[i]]])

RunBootstrap(kw) ==
    /\ est.state = "ok"
    /\ LET b == BootstrapAfter(est, kw)
           run == BootstrapRun(est, b)
           n == RecordNum(est, kw)
           rows == Len(run.results.data)
       IN  /\ est' = [est EXCEPT !.bootstrap = Some(b)]
           /\ IF IsNone(n)
              THEN ret' = [op |-> "run_bootstrap", raised |-> Some("TypeError"), kw |-> kw,
                           full |-> run.results, value |-> None]
              ELSE \E f \in IF SubsampleTaken(Get(n), rows) THEN RowChoices(Get(n), rows)
                                                            ELSE {[i \in 1..rows |-> i]} :
                      ret' = [op |-> "run_bootstrap", raised |-> None, kw |-> kw,
                              full |-> run.results,
                              value |-> Some([summary |-> run.summary,
                                              results |-> IF SubsampleTaken(Get(n), rows)
                                                          THEN TakeRows(run.results, f)
                                                          ELSE run.results])]
    /\ UNCHANGED <<caller, results, disk, heap, batch>>

(***************************************************************************)
(* FitResults.to_json / FitResults.from_json                               *)
(***************************************************************************)
\* EncodeFloat as the identity: every digit of the float is written.
EncodeFloatExact(c) == c

\* A float as pandas' to_json writes it and read_json reads it back: ten decimals
\* are written (double_precision=10, the default of to_json), the digits after
\* them are lost; NaN is written as null and read back as NaN.
EncodeFloat(c) == IF c = NaN THEN NaN ELSE 2 * (c \div 2)

EncodeVals(o) ==
    IF o.typ = "DataFrame"
    THEN [i \in 1..Len(o.data) |-> [j \in 1..Len(o.data[i]) |-> EncodeFloat(o.data[i][j])]]
    ELSE [i \in 1..Len(o.data) |-> EncodeFloat(o.data[i])]

\* The objects that have a to_json method: pandas Series and DataFrame.
HasToJson(o) == o.typ \in {"Series", "DataFrame"}

\* jsonfy(target): target.to_json(), None when that raises (None, ndarray, list, str).
jsonfy(target) ==
    IF IsNone(target) THEN None
    ELSE IF HasToJson(Get(target))
         THEN Some(Obj("json", Get(target).index, Get(target).columns, EncodeVals(Get(target))))
         ELSE None

\* A label is held as a plain str (None when not given).
LabelObj(l) == IF IsNone(l) THEN None ELSE Some(Str(Get(l)))

\* data_to_dump of to_json.
to_json(r) ==
    [point_estimation |-> [params |-> jsonfy(r.point_estimation.params),
                           pcov |-> jsonfy(r.point_estimation.pcov)],
     uncertainty |-> [summary |-> jsonfy(r.uncertainty.summary),
                      bs_records |-> jsonfy(r.uncertainty.bs_records),
                      rep_results |-> jsonfy(r.uncertainty.rep_results)],
     convergence |-> [summary |-> jsonfy(r.convergence.summary),
                      records |-> jsonfy(r.convergence.records)],
     data |-> [x_data |-> jsonfy(r.data.x_data),
               y_data |-> jsonfy(r.data.y_data),
               sigma |-> jsonfy(r.data.sigma),
               x_label |-> jsonfy(LabelObj(r.data.x_label)),
               y_label |-> jsonfy(LabelObj(r.data.y_label))]]

\* pd.read_json(leaf, typ=...): the table of a leaf that to_json wrote; a leaf that
\* is no table raises ValueError.
BadTable == Obj("text", <<>>, <<>>, <<>>)
read_json(leaf, typ) == Obj(typ, leaf.index, leaf.columns, leaf.data)

\* LeafError without the failure of pd.read_json: a leaf that is no table is read
\* through.
LeafErrorNoTableCheck(block, key) ==
    IF block = None THEN Some("TypeError")
    ELSE IF key \notin DOMAIN block THEN Some("KeyError")
    ELSE None

\* LeafError without the `is not None` test: a null leaf is handed to pd.read_json.
LeafErrorNoNullCheck(block, key) ==
    IF block = None THEN Some("TypeError")
    ELSE IF key \notin DOMAIN block THEN Some("KeyError")
    ELSE IF IsNone(block[key]) \/ Get(block[key]).typ # "json" THEN Some("ValueError")
    ELSE None

\* The exception met when block[key] is read as a table: KeyError for a missing
\* key, TypeError for a null block, ValueError for a leaf that is no table.
LeafError(block, key) ==
    IF block = None THEN Some("TypeError")
    ELSE IF key \notin DOMAIN block THEN Some("KeyError")
    ELSE IF ~IsNone(block[key]) /\ Get(block[key]).typ # "json" THEN Some("ValueError")
    ELSE None

\* if block[key] is not None: field = pd.read_json(block[key], typ=...)
LeafValue(block, key, typ, old) ==
    IF IsNone(block[key]) THEN old ELSE Some(read_json(Get(block[key]), typ))

\* The first exception of a sequence of steps, None if none raises.
RECURSIVE FirstError(_)
FirstError(errs) ==
    IF errs = <<>> THEN None
    ELSE IF ~IsNone(Head(errs)) THEN Head(errs) ELSE FirstError(Tail(errs))

\* RecordsLabel without the bs_records alias.
RecordsLabelNoLegacy(block) ==
    IF "record" \in DOMAIN block THEN Some("record")
    ELSE IF "records" \in DOMAIN block THEN Some("records")
    ELSE None

\* The key the bootstrap records are read from: record, records or bs_records; with
\* none of them logging.error(..., ValueError) is called and no table is read.
RecordsLabel(block) ==
    IF "record" \in DOMAIN block THEN Some("record")
    ELSE IF "records" \in DOMAIN block THEN Some("records")
    ELSE IF "bs_records" \in DOMAIN block THEN Some("bs_records")
    ELSE None
ConvergenceLabel(block) == IF "record" \in DOMAIN block THEN "record" ELSE "records"

PointError(doc) ==
    IF "point_estimation" \notin DOMAIN doc THEN None
    ELSE FirstError(<<LeafError(doc.point_estimation, "params"), LeafError(doc.point_estimation, "pcov")>>)
UncertaintyError(doc) ==
    IF "uncertainty" \notin DOMAIN doc THEN None
    ELSE LET b == doc.uncertainty
         IN  FirstError(<<LeafError(b, "summary"),
                          IF b = None THEN Some("AttributeError")
                          ELSE IF IsNone(RecordsLabel(b)) THEN Some("ValueError")
                          ELSE LeafError(b, Get(RecordsLabel(b))),
                          IF "rep_results" \in DOMAIN b THEN LeafError(b, "rep_results") ELSE None>>)
ConvergenceError(doc) ==
    IF "convergence" \notin DOMAIN doc THEN None
    ELSE LET b == doc.convergence
         IN  FirstError(<<LeafError(b, "summary"),
                          IF b = None THEN Some("AttributeError") ELSE LeafError(b, ConvergenceLabel(b))>>)
DataError(doc) ==
    IF "data" \notin DOMAIN doc THEN None
    ELSE LET b == doc.data
             LabelError(key) == IF b = None THEN Some("TypeError")
                                ELSE IF key \notin DOMAIN b THEN Some("KeyError") ELSE None
         IN  FirstError(<<LeafError(b, "x_data"), LeafError(b, "y_data"), LeafError(b, "sigma"),
                          LabelError("x_label"), LabelError("y_label")>>)

\* The exception from_json raises on a parsed document, None if it returns.
FromJsonError(doc) ==
    FirstError(<<PointError(doc), UncertaintyError(doc), ConvergenceError(doc), DataError(doc)>>)

\* The FitResults from_json returns for a document it reads through; base is the
\* fresh FitResults(estimator) the fields are assigned on.
FromJsonValue(doc, base) ==
    [point_estimation |->
        IF "point_estimation" \notin DOMAIN doc THEN base.point_estimation
        ELSE [params |-> LeafValue(doc.point_estimation, "params", "Series", None),
              pcov |-> LeafValue(doc.point_estimation, "pcov", "DataFrame", None)],
     uncertainty |->
        IF "uncertainty" \notin DOMAIN doc THEN base.uncertainty
        ELSE [summary |-> LeafValue(doc.uncertainty, "summary", "Series", None),
              bs_records |-> LeafValue(doc.uncertainty, Get(RecordsLabel(doc.uncertainty)), "DataFrame", None),
              rep_results |-> IF "rep_results" \in DOMAIN doc.uncertainty
                              THEN LeafValue(doc.uncertainty, "rep_results", "DataFrame", None)
                              ELSE None],
     convergence |->
        IF "convergence" \notin DOMAIN doc THEN base.convergence
        ELSE [summary |-> LeafValue(doc.convergence, "summary", "Series", None),
              records |-> LeafValue(doc.convergence, ConvergenceLabel(doc.convergence), "DataFrame", None)],
     data |->
        IF "data" \notin DOMAIN doc THEN base.data
        ELSE [x_data |-> LeafValue(doc.data, "x_data", "Series", base.data.x_data),
              y_data |-> LeafValue(doc.data, "y_data", "Series", base.data.y_data),
              sigma |-> LeafValue(doc.data, "sigma", "Series", base.data.sigma),
              x_label |-> IF IsNone(doc.data.x_label) THEN base.data.x_label
                          ELSE Some(Get(doc.data.x_label).data[1]),
              y_label |-> IF IsNone(doc.data.y_label) THEN base.data.y_label
                          ELSE Some(Get(doc.data.y_label).data[1])]]

\* A file: absent, text that is no JSON, or a JSON document.
JsonFile(doc) == [kind |-> "json", doc |-> doc]
NotJsonFile == [kind |-> "text"]

\* from_json(json_path, estimator=...): read_json raises JSONDecodeError on text
\* that is no JSON; base is FitResults(estimator).
from_json(file, base) ==
    IF file.kind # "json" THEN [raised |-> Some("JSONDecodeError"), value |-> base]
    ELSE IF ~IsNone(FromJsonError(file.doc)) THEN [raised |-> FromJsonError(file.doc), value |-> base]
    ELSE [raised |-> None, value |-> FromJsonValue(file.doc, base)]

(***************************************************************************)
(* SingleFitter.fit                                                        *)
(***************************************************************************)
\* The keyword arguments of one fit call: None where the keyword is not passed.
NoFitKw == [save_to |-> None, overwrite |-> None, rnd_seed |-> None]
Flags(pe, bs, rep, conv) == [point_estimate |-> pe, bootstrap |-> bs, replicates |-> rep, convergence_test |-> conv]

\* save_to = kwargs.pop('save_to', self.save_to)
ResumePath(e, kw) == update_none(kw.save_to, e.save_to)
\* overwrite = kwargs.pop('overwrite', self.overwrite)
Overwrite(e, kw) == IF IsNone(kw.overwrite) THEN e.overwrite ELSE Get(kw.overwrite)

\* ResumeTried that never looks for a saved result.
ResumeTriedNever(e, kw, d) == FALSE

\* if save_to and (overwrite is False) and Path(save_to).exists()
ResumeTried(e, kw, d) ==
    /\ ~IsNone(ResumePath(e, kw))
    /\ Overwrite(e, kw) = FALSE
    /\ d[Get(ResumePath(e, kw))].kind # "absent"

\* except JSONDecodeError: the one exception of from_json after which fit goes on.
CaughtOnResume(exc) == exc = "JSONDecodeError"

\* if self.save_to: self.results.to_json(self.save_to)
SavePath(e, kw) == e.save_to

\* rnd_seed = kwargs.pop('rnd_seed', self.config.rnd_seed)
SeedInEffect(e, kw) == update_none(kw.rnd_seed, e.rnd_seed)

\* if rnd_seed: np.random.seed(rnd_seed) -- the seed the generator is set to
\* before the stages, None when np.random.seed is not called.
Seeded(e, kw) ==
    IF IsNone(SeedInEffect(e, kw)) \/ Get(SeedInEffect(e, kw)) = 0 THEN None ELSE SeedInEffect(e, kw)

\* PointStage on a fresh FitResults: the fields of the other stages are reset.
PointStageFresh(r, v) ==
    [EmptyResults(r.data) EXCEPT !.point_estimation =
        [params |-> Some(IF IsNone(v.metrics) THEN v.params
                         ELSE Series(v.params.index \o Get(v.metrics).index,
                                     v.params.data \o Get(v.metrics).data)),
         pcov |-> Some(v.pcov)]]

\* point_estimation after the point-estimate stage: params with the metrics
\* appended, and pcov.
PointStage(r, v) ==
    [r EXCEPT !.point_estimation =
        [params |-> Some(IF IsNone(v.metrics) THEN v.params
                         ELSE Series(v.params.index \o Get(v.metrics).index,
                                     v.params.data \o Get(v.metrics).data)),
         pcov |-> Some(v.pcov)]]

\* Replicates.run(): one result row per replicate group, and their summary.
ReplicatesRun(e) ==
    [summary |-> Series(e.parameters, [j \in 1..Len(e.parameters) |-> 7]),
     results |-> DataFrame(Get(e.replicates), e.parameters,
                           [i \in 1..Len(Get(e.replicates)) |-> [j \in 1..Len(e.parameters) |-> 7]])]

\* ConvergenceTester.run(): one record row per repeated fit, and their summary.
ConvergenceRun(e) ==
    [summary |-> Series(e.parameters, [j \in 1..Len(e.parameters) |-> 1]),
     records |-> DataFrame(RangeLabels(e.conv_reps), e.parameters,
                           [i \in 1..e.conv_reps |-> [j \in 1..Len(e.parameters) |-> 8 + i]])]

(***************************************************************************)
(* SingleFitter.run_replicates / SingleFitter.convergence_test             *)
(***************************************************************************)
\* run_replicates(replicates): the estimator's Replicates when the call passes
\* None (an attribute __init__ sets only when replicates were given), else a
\* Replicates built for the call and kept in a local name.
RunReplicates(kw) ==
    /\ est.state = "ok"
    /\ LET groups == update_none(kw.replicates, est.replicates)
       IN  ret' = IF IsNone(groups)
                  THEN [op |-> "run_replicates", raised |-> Some("AttributeError"), kw |-> kw, value |-> None]
                  ELSE [op |-> "run_replicates", raised |-> None, kw |-> kw,
                        value |-> Some(ReplicatesRun([est EXCEPT !.replicates = groups]))]
    /\ UNCHANGED <<caller, est, results, disk, heap, batch>>

\* convergence_test(**kwargs): the tester is built from the keywords when the
\* constructor built none, else its conv_reps is updated when the keyword is
\* passed; then the tester runs.  conv_reps of the estimator record stands for
\* the tester's.
ConvergenceTest(kw) ==
    /\ est.state = "ok"
    /\ LET reps == IF IsNone(kw.conv_reps) THEN est.conv_reps ELSE Get(kw.conv_reps)
       IN  /\ est' = [est EXCEPT !.conv_reps = reps]
           /\ ret' = [op |-> "convergence_test", raised |-> None, kw |-> kw,
                      value |-> Some(ConvergenceRun([est EXCEPT !.conv_reps = reps]))]
    /\ UNCHANGED <<caller, results, disk, heap, batch>>

\* The object at address r as its holders see it.
Deref(h, r) == h.objs[r]

\* obj[i] = v on the array a holder keeps under a name (the caller's argument,
\* the estimator's stored data, the fit input of its FitResults): the object is
\* changed in place, and every name bound to it shows the change.
Mutate(holder, field, i, v) ==
    /\ est.state = "ok"
    /\ heap[holder][field] # 0
    /\ i \in 1..Len_(Deref(heap, heap[holder][field]))
    /\ heap' = [heap EXCEPT !.objs[heap[holder][field]].data[i] = v]
    /\ caller' = [caller EXCEPT !.x_data = Deref(heap', heap.caller.x_data),
                                !.y_data = Deref(heap', heap.caller.y_data),
                                !.sigma = IF heap.caller.sigma = 0 THEN None
                                          ELSE Some(Deref(heap', heap.caller.sigma))]
    /\ est' = [est EXCEPT !.x_data = Deref(heap', heap.estimator.x_data),
                          !.y_data = Deref(heap', heap.estimator.y_data),
                          !.sigma = Deref(heap', heap.estimator.sigma)]
    /\ results' = [results EXCEPT !.data.x_data = Some(Deref(heap', heap.results.x_data)),
                                  !.data.y_data = Some(Deref(heap', heap.results.y_data)),
                                  !.data.sigma = Some(Deref(heap', heap.results.sigma))]
    /\ ret' = [op |-> "mutate", raised |-> None, holder |-> holder, field |-> field]
    /\ UNCHANGED <<disk, batch>>

\* pd.concat of the stage summaries that were computed (None: stage not run).
ConcatSummary(bs, rep) ==
    LET a == IF IsNone(bs) THEN Series(<<>>, <<>>) ELSE Get(bs)
        b == IF IsNone(rep) THEN Series(<<>>, <<>>) ELSE Get(rep)
    IN  Series(a.index \o b.index, a.data \o b.data)

\* The fitting part of fit (after the resume check), for the outcome att of the
\* point estimate's try block and the rows f the bootstrap subsample draws.
FitStages(e, r0, flags, att, f) ==
    LET r1 == IF flags.point_estimate THEN PointStage(r0, _fit(e, NoOverrides, att).value) ELSE r0
        bsRuns == flags.bootstrap /\ Len_(e.x_data) >= 2
        b == BootstrapAfter(e, NoBootstrapKw)
        run == BootstrapRun(e, b)
        bsErr == bsRuns /\ IsNone(e.bs_record_num)
        recs == IF SubsampleTaken(Get(e.bs_record_num), Len(run.results.data))
                THEN TakeRows(run.results, f) ELSE run.results
        r2 == IF bsRuns /\ ~bsErr THEN [r1 EXCEPT !.uncertainty.bs_records = Some(recs)] ELSE r1
        repErr == ~bsErr /\ flags.replicates /\ IsNone(e.replicates)
        repRuns == ~bsErr /\ flags.replicates /\ ~repErr
        r3 == IF repRuns THEN [r2 EXCEPT !.uncertainty.rep_results = Some(ReplicatesRun(e).results)] ELSE r2
        summary == ConcatSummary(IF bsRuns THEN Some(run.summary) ELSE None,
                                 IF repRuns THEN Some(ReplicatesRun(e).summary) ELSE None)
        r4 == IF Len(summary.data) > 0 THEN [r3 EXCEPT !.uncertainty.summary = Some(summary)] ELSE r3
        r5 == IF flags.convergence_test
              THEN [r4 EXCEPT !.convergence = [summary |-> Some(ConvergenceRun(e).summary),
                                               records |-> Some(ConvergenceRun(e).records)]]
              ELSE r4
    IN  [raised |-> IF bsErr THEN Some("TypeError") ELSE IF repErr THEN Some("AttributeError") ELSE None,
         results |-> IF bsErr THEN r1 ELSE IF repErr THEN r2 ELSE r5,
         bootstrap |-> IF bsRuns THEN Some(b) ELSE e.bootstrap,
         stages |-> (IF flags.point_estimate THEN {"point_estimate"} ELSE {})
                    \cup (IF bsRuns THEN {"bootstrap"} ELSE {})
                    \cup (IF ~bsErr /\ flags.replicates THEN {"replicates"} ELSE {})
                    \cup (IF ~bsErr /\ ~repErr /\ flags.convergence_test THEN {"convergence_test"} ELSE {})]

\* The rows the bootstrap stage of fit may keep.
FitRowChoices(e) ==
    LET rows == BootstrapRows(e, BootstrapAfter(e, NoBootstrapKw))
    IN  IF ~IsNone(e.bs_record_num) /\ SubsampleTaken(Get(e.bs_record_num), rows)
        THEN RowChoices(Get(e.bs_record_num), rows) ELSE {<<>>}

\* What the point estimate of fit may meet: curve_fit returning one of FitVals for
\* every parameter, or raising; one outcome when the stage is not requested.
FitAttempts(e, flags) ==
    LET all == Attempts(Len(e.parameters), Len(MetricNames(e, NoOverrides)))
        some == {a \in all : /\ a.exc \in {"none", "RuntimeError"}
                             /\ a.at # "metric"
                             /\ \A i \in DOMAIN a.params : a.params[i] = a.params[1]}
    IN  IF flags.point_estimate THEN some ELSE {CHOOSE a \in some : a.exc = "RuntimeError"}

\* fit() writing the file before its first stage: the results as they were.
ResultsSavedBeforeStages(r0, out) == r0

\* if self.save_to: ... self.results.to_json(self.save_to) is the last statement
\* of fit(): what is written is self.results after the last stage.
ResultsSaved(r0, out) == out.results

Fit(flags, kw) ==
    /\ est.state = "ok"
    /\ LET tried == ResumeTried(est, kw, disk)
           load == IF tried THEN from_json(disk[Get(ResumePath(est, kw))], NewResults(est))
                   ELSE [raised |-> None, value |-> results]
           call == [op |-> "fit", flags |-> flags, kw |-> kw, tried |-> tried]
       IN  IF tried /\ IsNone(load.raised)
           THEN \* the saved result is readable: results are replaced, nothing is fit
                /\ results' = load.value
                /\ ret' = call @@ [raised |-> None, resumed |-> TRUE, stages |-> {}, saved |-> None,
                                   seeded |-> None]
                /\ UNCHANGED <<caller, est, disk, heap, batch>>
           ELSE IF tried /\ ~CaughtOnResume(Get(load.raised))
           THEN \* from_json raised something fit does not catch
                /\ ret' = call @@ [raised |-> load.raised, resumed |-> FALSE, stages |-> {}, saved |-> None,
                                   seeded |-> None]
                /\ UNCHANGED <<caller, est, results, disk, heap, batch>>
           ELSE \E att \in FitAttempts(est, flags), f \in FitRowChoices(est) :
                    LET out == FitStages(est, results, flags, att, f)
                        path == SavePath(est, kw)
                        saves == IsNone(out.raised) /\ ~IsNone(path)
                    IN  /\ results' = out.results
                        /\ est' = [est EXCEPT !.bootstrap = out.bootstrap]
                        /\ disk' = IF saves
                                    THEN [disk EXCEPT ![Get(path)] = JsonFile(to_json(ResultsSaved(results, out)))]
                                    ELSE disk
                        /\ ret' = call @@ [raised |-> out.raised, resumed |-> FALSE, stages |-> out.stages,
                                           saved |-> IF saves THEN path ELSE None,
                                           seeded |-> Seeded(est, kw)]
                        /\ UNCHANGED <<caller, heap, batch>>

\* FitResults.to_json() and FitResults.from_json() of what it wrote, with no
\* estimator: the round trip of the estimator's results through the JSON form.
RoundTrip ==
    /\ est.state = "ok"
    /\ LET doc == to_json(results)
       IN  ret' = [op |-> "round_trip", raised |-> from_json(JsonFile(doc), EmptyResults(NoData)).raised,
                   doc |-> doc, value |-> from_json(JsonFile(doc), EmptyResults(NoData)).value]
    /\ UNCHANGED <<caller, est, results, disk, heap, batch>>

(***************************************************************************)
(* Specifications.                                                         *)
(***************************************************************************)
Paths == {"a", "b"}
NoFile == [kind |-> "absent"]

(***************************************************************************)
(* BatchFitter: construction, fit and summary.  The class is not in this   *)
(* source tree (main builds it and calls fit and summary on it); each task *)
(* is one SingleFitter.fit on one row of the table.                        *)
(***************************************************************************)
SeqIds == {"s1", "s2", "s3"}
NoBatchOpts == [deduplicate |-> FALSE, stream |-> FALSE, overwrite |-> FALSE]
NoBatch ==
    [state |-> "none", table |-> <<>>, opts |-> NoBatchOpts, pending |-> {}, done |-> <<>>,
     outcome |-> <<>>, order |-> <<>>, fits |-> 0, runs |-> 0, dir |-> [s \in SeqIds |-> NoFile],
     had |-> {}, summary |-> <<>>, prev |-> None]

\* Rows are merged on y only: rows that differ in sigma count as one.
SameRowIgnoringSigma(r1, r2) == r1.y = r2.y

\* Two rows hold the same data: the same y vector and the same sigma vector.
SameRow(r1, r2) == r1.y = r2.y /\ r1.sigma = r2.sigma

\* The first row of the table with the data of row i.
Representative(table, i) ==
    CHOOSE j \in 1..i : /\ SameRow(table[j], table[i])
                        /\ \A k \in 1..(j - 1) : ~SameRow(table[k], table[i])

\* The rows that are fit: one per distinct data vector with deduplicate, else all.
Tasks(table, deduplicate) ==
    IF deduplicate THEN {i \in 1..Len(table) : Representative(table, i) = i} ELSE 1..Len(table)
TaskOf(table, deduplicate, i) == IF deduplicate THEN Representative(table, i) ELSE i

\* The worker of a row: a SingleFitter on BYOModel.func_react_frac with the
\* metric kA, saving to the row's own file when results are streamed to disk.
BatchParameters == get_func_params("byo")
BatchMetrics == Some(<<"kA">>)
WorkerEstimator(row, opts) ==
    [save_to |-> IF opts.stream THEN Some(row.id) ELSE None, overwrite |-> opts.overwrite]

\* What the try block of the row's _fit meets: the solver is a function of the
\* row's data, unless the fit fails numerically.
RowAttempt(row, outcome) ==
    IF outcome = "ok"
    THEN [exc |-> "none", at |-> "none", params |-> <<row.y[2], row.sigma[2]>>, cov |-> 6, mvals |-> <<6>>]
    ELSE [exc |-> "RuntimeError", at |-> "curve_fit", params |-> <<3, 3>>, cov |-> 6, mvals |-> <<6>>]

\* The FitResults of a worker after its point estimate.
WorkerResults(row, outcome) ==
    PointStage(EmptyResults(NoData), FitDict(BatchParameters, BatchMetrics, RowAttempt(row, outcome)))

\* The NaN-filled result recorded for a row whose worker crashed.
CrashResults(row) == WorkerResults(row, "fault")

\* The worker's fit() finds a readable result file and skips fitting.
Resumes(row, opts, dir) ==
    /\ ResumeTried(WorkerEstimator(row, opts), NoFitKw, dir)
    /\ IsNone(from_json(dir[row.id], EmptyResults(NoData)).raised)

\* One row of the summary table: the point estimate with its metrics.
Flatten(r) == Get(r.point_estimation.params).data

\* The summary in the order the workers completed.
AssembleInCompletionOrder(table, deduplicate, done, order) ==
    [i \in 1..Len(order) |->
        [id |-> table[order[i]].id, task |-> order[i], values |-> Flatten(Get(done[order[i]]))]]

\* The summary table: one row per row of the table, in the table's order, each
\* with the task that fit its data and that task's result.
Assemble(table, deduplicate, done, order) ==
    [i \in 1..Len(table) |->
        [id |-> table[i].id, task |-> TaskOf(table, deduplicate, i),
         values |-> Flatten(Get(done[TaskOf(table, deduplicate, i)]))]]

\* A crash of one worker ends the batch: no later result is recorded.
AfterCrashAbort(b, k) == [b EXCEPT !.state = "aborted", !.pending = {}]

\* The batch after the worker of task k crashed: the row gets the NaN-filled result.
AfterCrash(b, k) ==
    [b EXCEPT !.done[k] = Some(CrashResults(b.table[k])), !.outcome[k] = "crash",
              !.order = Append(b.order, k), !.pending = b.pending \ {k}]

BatchConstruct(table) ==
    /\ batch.state = "none"
    /\ batch' = [NoBatch EXCEPT !.state = "built", !.table = table]
    /\ UNCHANGED <<caller, est, results, disk, ret, heap>>

\* fit(deduplicate, parallel_cores, stream_to_disk, overwrite): the tasks are handed
\* out; had notes the rows whose file exists when the run starts, prev the run before.
BatchFit(opts) ==
    /\ batch.state \in {"built", "done"}
    /\ batch.runs < MaxRuns
    /\ batch' = [batch EXCEPT !.state = "running", !.opts = opts, !.runs = batch.runs + 1,
                              !.pending = Tasks(batch.table, opts.deduplicate),
                              !.done = [i \in 1..Len(batch.table) |-> None],
                              !.outcome = [i \in 1..Len(batch.table) |-> "none"],
                              !.order = <<>>, !.fits = 0, !.summary = <<>>,
                              !.had = {i \in 1..Len(batch.table) :
                                         batch.dir[batch.table[i].id].kind # "absent"},
                              !.prev = IF batch.state = "done"
                                       THEN Some([opts |-> batch.opts, summary |-> batch.summary,
                                                  outcome |-> batch.outcome])
                                       ELSE None]
    /\ UNCHANGED <<caller, est, results, disk, ret, heap>>

\* The worker of task k completes, in any order among the pending tasks: its
\* fit() loads the row's file when there is one to resume from, else it fits and,
\* when streaming, saves; a crashed worker saves nothing.
WorkerCompletes(k, outcome) ==
    /\ batch.state = "running"
    /\ k \in batch.pending
    /\ LET row == batch.table[k]
       IN  IF Resumes(row, batch.opts, batch.dir)
           THEN batch' = [batch EXCEPT
                            !.done[k] = Some(from_json(batch.dir[row.id], EmptyResults(NoData)).value),
                            !.outcome[k] = "loaded",
                            !.order = Append(batch.order, k), !.pending = batch.pending \ {k}]
           ELSE IF outcome = "crash"
           THEN batch' = [AfterCrash(batch, k) EXCEPT !.fits = batch.fits + 1]
           ELSE batch' = [batch EXCEPT
                            !.done[k] = Some(WorkerResults(row, outcome)), !.outcome[k] = outcome,
                            !.order = Append(batch.order, k), !.pending = batch.pending \ {k},
                            !.fits = batch.fits + 1,
                            !.dir[row.id] = IF batch.opts.stream
                                            THEN JsonFile(to_json(WorkerResults(row, outcome)))
                                            ELSE batch.dir[row.id]]
    /\ UNCHANGED <<caller, est, results, disk, ret, heap>>

\* Every task has completed: fit() returns and summary() assembles the table.
BatchSummary ==
    /\ batch.state = "running"
    /\ batch.pending = {}
    /\ batch' = [batch EXCEPT !.state = "done",
                              !.summary = Assemble(batch.table, batch.opts.deduplicate,
                                                   batch.done, batch.order)]
    /\ UNCHANGED <<caller, est, results, disk, ret, heap>>

Init ==
    /\ caller = DefaultArgs(PyList(<<>>), PyList(<<>>), "exp")
    /\ est = NoEstimator
    /\ results = EmptyResults(NoData)
    /\ disk = [p \in Paths |-> NoFile]
    /\ ret = NoRet
    /\ heap = NoHeap
    /\ batch = NoBatch

\* Construction on data of every shape, everything else at its default.
XAt(i) == 2 * (i - 1)
SigmaAt(i) == 2 * i + 1
YVals == {0, 3, NaN}
Containers == {"list", "Series"}
Container(typ, vals) == IF typ = "list" THEN PyList(vals) ELSE Series(RangeLabels(Len(vals)), vals)
DataArgs(t, n, y, sg, ez) ==
    [DefaultArgs(Container(t, [i \in 1..n |-> XAt(i)]), Container(t, y), "exp")
       EXCEPT !.sigma = sg, !.exclude_zero = ez,
              !.given = (IF IsNone(sg) THEN {} ELSE {"sigma"}) \cup (IF ez THEN {"exclude_zero"} ELSE {})]
SigmaArgs(t) == {None} \cup {Some(Container(t, [i \in 1..k |-> SigmaAt(i)])) : k \in 0..MaxLen}

ConstructData ==
    /\ est.state = "none"
    /\ \E t \in Containers, n \in 0..MaxLen, m \in 0..MaxLen, ez \in BOOLEAN :
         \E y \in [1..m -> YVals], sg \in SigmaArgs(t) :
            Construct(DataArgs(t, n, y, sg, ez))
NextConstruct == ConstructData
SpecConstruct == Init /\ [][NextConstruct]_vars

\* Point estimation with every model, metric setting and outcome of the try block.
PointArgs ==
    { [DefaultArgs(PyList(<<0, 2>>), PyList(<<3, 4>>), m) EXCEPT !.metrics = mt,
         !.given = IF IsNone(mt) THEN {} ELSE {"metrics"}] :
        m \in Models, mt \in {None, Some(<<"kA">>)} }
PointOverrides ==
    [model : {None} \cup {Some(m) : m \in Models}, metrics : {None, Some(<<"kA">>), Some(<<"kA", "k2">>)},
     init_guess : {None}, x_data : {None}, y_data : {None}, sigma : {None}]

ConstructPoint == est.state = "none" /\ \E a \in PointArgs : Construct(a)
CallPointEstimate == est.state = "ok" /\ \E kw \in PointOverrides : PointEstimate(kw)
NextPoint == ConstructPoint \/ CallPointEstimate
SpecPoint == Init /\ [][NextPoint]_vars

\* Point estimation with initial guesses at construction and in the call: lists
\* and arrays, empty, of one value and of two, with zeros.
ConfiguredGuesses == {None, Some(PyList(<<2>>)), Some(PyList(<<0, 2>>))}
CallGuesses ==
    {None} \cup {Some(g) : g \in {PyList(<<>>), PyList(<<0>>), PyList(<<2, 2>>),
                                  NdArray(<<0>>), NdArray(<<2, 2>>)}}
GuessArgs ==
    { [DefaultArgs(PyList(<<0, 2>>), PyList(<<3, 4>>), m) EXCEPT !.init_guess = g,
         !.given = IF IsNone(g) THEN {} ELSE {"init_guess"}] :
        m \in Models, g \in ConfiguredGuesses }
GuessOverrides ==
    [model : {None, Some("byo")}, metrics : {None}, init_guess : CallGuesses,
     x_data : {None}, y_data : {None}, sigma : {None}]

ConstructGuess == est.state = "none" /\ \E a \in GuessArgs : Construct(a)
CallPointGuess == est.state = "ok" /\ \E kw \in GuessOverrides : PointEstimate(kw)
NextGuess == ConstructGuess \/ CallPointGuess
SpecGuess == Init /\ [][NextGuess]_vars

\* Bootstrap with every setting of bootstrap_num and bs_record_num, at
\* construction and in the call, on data of one point and of three.
RecordNums == (0 - 1)..(MaxBootstrap + 1)
BootstrapNums == 0..MaxBootstrap
BootstrapArgs(n, bn, rn, given) ==
    [DefaultArgs(PyList([i \in 1..n |-> XAt(i)]), PyList([i \in 1..n |-> 3]), "byo")
       EXCEPT !.bootstrap_num = bn, !.bs_record_num = rn, !.given = given]

ConstructBootstrap ==
    /\ est.state = "none"
    /\ \E n \in {1, 3}, bn \in BootstrapNums :
         \/ Construct(BootstrapArgs(n, bn, Some(0), IF bn = 0 THEN {} ELSE {"bootstrap_num"}))
         \/ \E rn \in {None} \cup {Some(r) : r \in RecordNums} :
               Construct(BootstrapArgs(n, bn, rn, {"bootstrap_num", "bs_record_num"}))
CallRunBootstrap ==
    /\ est.state = "ok"
    /\ \E rn \in {None} \cup {Some(r) : r \in RecordNums},
          bn \in {None} \cup {Some(b) : b \in BootstrapNums} :
            RunBootstrap([bs_record_num |-> rn, bootstrap_num |-> bn])
NextBootstrap == ConstructBootstrap \/ CallRunBootstrap
SpecBootstrap == Init /\ [][NextBootstrap]_vars

\* Fitting: estimators with and without a save path, fit calls with every
\* combination of stages and of the save_to / overwrite keywords, over files that
\* exist before the run, and the round trip of the results through JSON.
\* A document whose point_estimation block lacks its keys, one whose params leaf
\* is no table, and one that an earlier run saved.
MissingKeysDoc == [point_estimation |-> [pcov |-> None]]
BadTableDoc == [point_estimation |-> [params |-> Some(BadTable), pcov |-> None]]
SavedDoc ==
    to_json([EmptyResults(NoData) EXCEPT
               !.point_estimation = [params |-> Some(Series(<<"k">>, <<4>>)),
                                     pcov |-> Some(DataFrame(<<"k">>, <<"k">>, <<<<6>>>>))]])
InitFiles == {NoFile, NotJsonFile, JsonFile(MissingKeysDoc), JsonFile(BadTableDoc), JsonFile(SavedDoc)}

\* Path "a" is free before the run; path "b" may hold a file of any kind.
InitFit ==
    /\ caller = DefaultArgs(PyList(<<>>), PyList(<<>>), "exp")
    /\ est = NoEstimator
    /\ results = EmptyResults(NoData)
    /\ disk \in {d \in [Paths -> InitFiles] : d["a"] = NoFile}
    /\ ret = NoRet
    /\ heap = NoHeap
    /\ batch = NoBatch

FitArgs(t, labels, save_to, overwrite) ==
    [DefaultArgs(Container(t, <<0, 2>>), Container(t, <<3, 4>>), "exp")
       EXCEPT !.x_label = labels[1], !.y_label = labels[2], !.metrics = Some(<<"kA">>),
              !.bootstrap_num = 2, !.bs_record_num = Some(0 - 1),
              !.replicates = Some(<<"r1", "r2">>), !.conv_reps = 1,
              !.save_to = save_to, !.overwrite = overwrite,
              !.given = {"metrics", "bootstrap_num", "bs_record_num", "replicates", "conv_reps"}
                        \cup (IF IsNone(labels[1]) THEN {} ELSE {"x_label", "y_label"})
                        \cup (IF IsNone(save_to) THEN {} ELSE {"save_to"})
                        \cup (IF overwrite THEN {"overwrite"} ELSE {})]

ConstructFit ==
    /\ est.state = "none"
    /\ \E save_to \in {None, Some("a")}, overwrite \in BOOLEAN :
            Construct(FitArgs("list", <<None, None>>, save_to, overwrite))
\* fit() with its default stages, with every stage, and with the last stage alone.
FitFlags == {Flags(TRUE, FALSE, FALSE, FALSE), Flags(TRUE, TRUE, TRUE, TRUE), Flags(FALSE, FALSE, FALSE, TRUE)}
CallFit ==
    /\ est.state = "ok"
    /\ \E flags \in FitFlags :
         \E save_to \in {None, Some("b")}, overwrite \in {None, Some(TRUE), Some(FALSE)} :
            Fit(flags, [NoFitKw EXCEPT !.save_to = save_to, !.overwrite = overwrite])
Next == ConstructFit \/ CallFit
Spec == InitFit /\ [][Next]_vars

\* The JSON form: estimators over lists and over Series, with and without axis
\* labels, fit with every combination of stages and no save path, then written
\* and read back.
ConstructJson ==
    /\ est.state = "none"
    /\ \E t \in Containers, labels \in {<<None, None>>, <<Some("conc"), Some("frac")>>} :
            Construct(FitArgs(t, labels, None, FALSE))
CallFitJson ==
    /\ est.state = "ok"
    /\ \E pe, bs, rep, conv \in BOOLEAN : Fit(Flags(pe, bs, rep, conv), NoFitKw)
CallRoundTrip == est.state = "ok" /\ RoundTrip
NextJson == ConstructJson \/ CallFitJson \/ CallRoundTrip
SpecJson == Init /\ [][NextJson]_vars

\* Every operation of an estimator, in any order and any number of times, on
\* data with a zero that exclude_zero filters or keeps: point estimates with x,
\* y and sigma of the call, bootstrap, replicates, convergence test and fit.
OpsArgs(ez, sg) ==
    [DefaultArgs(PyList(<<0, 2, 4>>), PyList(<<3, 0, 4>>), "exp")
       EXCEPT !.exclude_zero = ez, !.sigma = sg,
              !.bootstrap_num = 2, !.bs_record_num = Some(0 - 1),
              !.replicates = Some(<<"r1", "r2">>), !.conv_reps = 1,
              !.given = {"bootstrap_num", "bs_record_num", "replicates", "conv_reps"}
                        \cup (IF IsNone(sg) THEN {} ELSE {"sigma"}) \cup (IF ez THEN {"exclude_zero"} ELSE {})]
DataOverrides ==
    { [NoOverrides EXCEPT !.x_data = d[1], !.y_data = d[2], !.sigma = sg] :
        d \in {<<None, None>>, <<Some(PyList(<<6, 8>>)), Some(PyList(<<3, 3>>))>>},
        sg \in {None, Some(PyList(<<5>>)), Some(PyList(<<5, 7>>))} }

ConstructOps ==
    /\ est.state = "none"
    /\ \/ Construct(OpsArgs(FALSE, None))
       \/ Construct(OpsArgs(TRUE, Some(PyList(<<1, 3, 5>>))))
CallPointOps == est.state = "ok" /\ \E kw \in DataOverrides : PointEstimate(kw)
CallBootstrapOps ==
    /\ est.state = "ok"
    /\ \E bn \in {None, Some(1)} : RunBootstrap([NoBootstrapKw EXCEPT !.bootstrap_num = bn])
CallRunReplicates ==
    /\ est.state = "ok"
    /\ \E groups \in {None, Some(<<"r3">>)} : RunReplicates([replicates |-> groups])
CallConvergenceTest ==
    /\ est.state = "ok"
    /\ \E reps \in {None, Some(2)} : ConvergenceTest([conv_reps |-> reps])
CallFitOps ==
    /\ est.state = "ok"
    /\ \E flags \in {Flags(TRUE, FALSE, FALSE, FALSE), Flags(TRUE, TRUE, TRUE, TRUE)} : Fit(flags, NoFitKw)
NextOps ==
    \/ ConstructOps
    \/ CallPointOps
    \/ CallBootstrapOps
    \/ CallRunReplicates
    \/ CallConvergenceTest
    \/ CallFitOps
SpecOps == Init /\ [][NextOps]_vars

AliasContainer(t, vals) == IF t = "ndarray" THEN NdArray(vals) ELSE Container(t, vals)

\* Seeding: estimators with no seed, seed 0 and another seed, fit with no seed
\* of the call, with 0 and with another seed.
ConstructSeed ==
    /\ est.state = "none"
    /\ \E seed \in {None, Some(0), Some(7)} :
          Construct([DefaultArgs(PyList(<<0, 2>>), PyList(<<3, 4>>), "exp")
                       EXCEPT !.rnd_seed = seed, !.given = IF IsNone(seed) THEN {} ELSE {"rnd_seed"}])
CallFitSeed ==
    /\ est.state = "ok"
    /\ \E seed \in {None, Some(0), Some(5)}, pe \in BOOLEAN, conv \in BOOLEAN :
          Fit(Flags(pe, FALSE, FALSE, conv), [NoFitKw EXCEPT !.rnd_seed = seed])
NextSeed == ConstructSeed \/ CallFitSeed
SpecSeed == Init /\ [][NextSeed]_vars

\* Aliasing: estimators over lists, arrays and Series, with and without zero
\* filtering and sigma, then writes into the caller's, the estimator's and the
\* results' arrays in any order.
AliasArgs(t, ez, sg) ==
    [DefaultArgs(AliasContainer(t, <<0, 2>>), AliasContainer(t, <<3, 0>>), "exp")
       EXCEPT !.exclude_zero = ez, !.sigma = IF sg THEN Some(AliasContainer(t, <<5, 7>>)) ELSE None,
              !.given = (IF sg THEN {"sigma"} ELSE {}) \cup (IF ez THEN {"exclude_zero"} ELSE {})]
ConstructAlias ==
    /\ est.state = "none"
    /\ \E t \in {"list", "ndarray", "Series"}, ez \in BOOLEAN, sg \in BOOLEAN : Construct(AliasArgs(t, ez, sg))
CallMutate ==
    /\ est.state = "ok"
    /\ \E holder \in {"caller", "estimator", "results"}, field \in {"x_data", "y_data", "sigma"} :
          Mutate(holder, field, 1, 9)
NextAlias == ConstructAlias \/ CallMutate
SpecAlias == Init /\ [][NextAlias]_vars

\* One batch run: tables of three rows with equal rows, rows that differ in y
\* and rows that differ in sigma only; every setting of deduplicate,
\* stream_to_disk and overwrite; every completion order and outcome of the workers.
RowA(id) == [id |-> id, y |-> <<3, 4>>, sigma |-> <<2, 2>>]
RowB(id) == [id |-> id, y |-> <<3, 5>>, sigma |-> <<2, 2>>]
RowC(id) == [id |-> id, y |-> <<3, 4>>, sigma |-> <<2, 4>>]
Tables3 ==
    {<<RowA("s1"), RowA("s2"), RowB("s3")>>, <<RowA("s1"), RowB("s2"), RowA("s3")>>,
     <<RowA("s1"), RowC("s2"), RowB("s3")>>, <<RowA("s1"), RowC("s2"), RowA("s3")>>,
     <<RowB("s1"), RowB("s2"), RowB("s3")>>}
BatchOpts == [deduplicate : BOOLEAN, stream : BOOLEAN, overwrite : BOOLEAN]
Outcomes == {"ok", "fault", "crash"}

ConstructBatch == batch.state = "none" /\ \E table \in Tables3 : BatchConstruct(table)
CallBatchFit == batch.state = "built" /\ \E opts \in BatchOpts : BatchFit(opts)
CompleteTask ==
    /\ batch.state = "running"
    /\ \E k \in batch.pending, outcome \in Outcomes : WorkerCompletes(k, outcome)
CallBatchSummary == batch.state = "running" /\ BatchSummary
NextBatch == ConstructBatch \/ CallBatchFit \/ CompleteTask \/ CallBatchSummary
SpecBatch == Init /\ [][NextBatch]_vars

\* Batch runs in succession on one streaming directory: tables of two rows, runs
\* with any setting of the three options, workers that complete or crash.
Tables2 == {<<RowA("s1"), RowA("s2")>>, <<RowA("s1"), RowB("s2")>>, <<RowB("s1"), RowC("s2")>>}
ConstructResume == batch.state = "none" /\ \E table \in Tables2 : BatchConstruct(table)
CallBatchFitAgain == batch.state \in {"built", "done"} /\ \E opts \in BatchOpts : BatchFit(opts)
CompleteOrCrash ==
    /\ batch.state = "running"
    /\ \E k \in batch.pending, outcome \in {"ok", "crash"} : WorkerCompletes(k, outcome)
NextResume == ConstructResume \/ CallBatchFitAgain \/ CompleteOrCrash \/ CallBatchSummary
SpecResume == Init /\ [][NextResume]_vars

\* Loading: FitResults.from_json with no estimator on files written by hand or by
\* older versions: any block absent, null or present, any key of a present block
\* missing, any leaf null, a table or no table, the record tables under each alias.
SeriesLeaf(v) == jsonfy(Some(Series(<<"k">>, <<v>>)))
FrameLeaf(v) == jsonfy(Some(DataFrame(<<"0">>, <<"k">>, <<<<v>>>>)))
KeysOf(leaves, keys) == [k \in keys |-> leaves[k]]

PointLeaves == [params : {None, SeriesLeaf(4)}, pcov : {None, FrameLeaf(6)}]
PointBlocks ==
    {None, [params |-> Some(BadTable), pcov |-> None]}
    \cup PointLeaves
    \cup {KeysOf(l, {"params"}) : l \in PointLeaves} \cup {KeysOf(l, {"pcov"}) : l \in PointLeaves}

RecordAliases == {"record", "records", "bs_records"}
UncertaintyLeaves ==
    {[summary |-> SeriesLeaf(4), record |-> FrameLeaf(8), records |-> FrameLeaf(10),
      bs_records |-> FrameLeaf(12), rep_results |-> FrameLeaf(14)],
     [summary |-> None, record |-> None, records |-> None, bs_records |-> None, rep_results |-> None]}
UncertaintyBlocks ==
    {None}
    \cup {KeysOf(l, {"summary", a} \cup rep) : l \in UncertaintyLeaves, a \in RecordAliases,
                                               rep \in {{}, {"rep_results"}}}
    \cup {KeysOf(l, keys) : l \in UncertaintyLeaves,
                            keys \in {{"summary"}, {"bs_records"}, {"summary", "record", "bs_records"},
                                      {"summary", "records", "bs_records"}}}

ConvergenceLeaves ==
    {[summary |-> SeriesLeaf(4), record |-> FrameLeaf(8), records |-> FrameLeaf(10)],
     [summary |-> None, record |-> None, records |-> None]}
ConvergenceBlocks ==
    {None}
    \cup {KeysOf(l, keys) : l \in ConvergenceLeaves,
                            keys \in {{"summary", "record"}, {"summary", "records"},
                                      {"summary", "record", "records"}, {"summary"}, {"records"}}}

DataKeys == {"x_data", "y_data", "sigma", "x_label", "y_label"}
DataLeaves ==
    {[x_data |-> SeriesLeaf(2), y_data |-> SeriesLeaf(4), sigma |-> SeriesLeaf(6),
      x_label |-> Some(Str("conc")), y_label |-> Some(Str("frac"))],
     [x_data |-> None, y_data |-> None, sigma |-> None, x_label |-> None, y_label |-> None]}
DataBlocks ==
    {None} \cup {KeysOf(l, keys) : l \in DataLeaves, keys \in {DataKeys, DataKeys \ {"x_label"}, DataKeys \ {"sigma"}}}

\* The document with the blocks that are chosen: <<>> leaves a block out, <<b>> puts b in.
Blocks == {"point_estimation", "uncertainty", "convergence", "data"}
Optional(S) == {<<>>} \cup {<<b>> : b \in S}
DocOf(p, u, c, d) ==
    LET chosen == [point_estimation |-> p, uncertainty |-> u, convergence |-> c, data |-> d]
    IN  [b \in {x \in Blocks : Len(chosen[x]) = 1} |-> chosen[b][1]]

\* FitResults.from_json(json_path) of one file, called once.
Load(file) ==
    /\ ret.op = "none"
    /\ LET r == from_json(file, EmptyResults(NoData))
       IN  ret' = [op |-> "from_json", raised |-> r.raised, file |-> file,
                   value |-> IF IsNone(r.raised) THEN Some(r.value) ELSE None]
    /\ UNCHANGED <<caller, est, results, disk, heap, batch>>

LoadDocument ==
    /\ ret.op = "none"
    /\ \E p \in Optional(PointBlocks), u \in Optional(UncertaintyBlocks),
          c \in Optional(ConvergenceBlocks), d \in Optional(DataBlocks) :
            Load(JsonFile(DocOf(p, u, c, d)))
LoadText == ret.op = "none" /\ Load(NotJsonFile)
NextLoad == LoadDocument \/ LoadText
SpecLoad == Init /\ [][NextLoad]_vars

(***************************************************************************)
(* clt/estimate-least-squares.py: main                                     *)
(***************************************************************************)
\* Python objects main meets: None, a str (a path), and the SeqData that
\* read_pickle loads from a path, whose grouper.byo.group is there or not.
NoneObj == [kind |-> "NoneType"]
StrObj(s) == [kind |-> "str", val |-> s]
SeqDataObj(group) == [kind |-> "SeqData", group |-> group]
TablePaths == {"with_grouper.pkl", "no_grouper.pkl"}
read_pickle(path) == IF path = "with_grouper.pkl" THEN SeqDataObj(Some("byo")) ELSE SeqDataObj(None)

\* obj.grouper.byo.group: AttributeError unless obj is a SeqData that has it.
GrouperLookup(obj) ==
    IF obj.kind = "SeqData" /\ ~IsNone(obj.group)
    THEN [raised |-> None, value |-> obj.group]
    ELSE [raised |-> Some("AttributeError"), value |-> None]

\* bs_method.lower()
Lower(m) == IF m = "Stratified" THEN "stratified" ELSE m

\* The exception read_table raises, None if it returns: neither source is given.
ReadTableError(a) ==
    IF IsNone(a.seq_table) /\ IsNone(a.simu_data) THEN Some("ValueError") ELSE None

\* The object the name seq_table is bound to when main looks for the grouper:
\* main's own argument (a path or None); the table read_pickle loaded is bound
\* inside read_table only and is not returned.
SeqTableInMain(a) == IF IsNone(a.seq_table) THEN NoneObj ELSE StrObj(Get(a.seq_table))

\* main up to the construction of BatchFitter: the exception it raises, the grouper
\* it hands to BatchFitter, and whether BatchFitter is reached.
Main(a) ==
    /\ ret.op = "none"
    /\ LET stratified == Lower(a.bs_method) = "stratified"
           lookup == GrouperLookup(SeqTableInMain(a))
           raised == IF ~IsNone(ReadTableError(a)) THEN ReadTableError(a)
                     ELSE IF stratified /\ ~IsNone(lookup.raised) THEN Some("ValueError")
                     ELSE None
       IN  ret' = [op |-> "main", raised |-> raised, args |-> a,
                   grouper |-> IF stratified /\ IsNone(raised) THEN lookup.value ELSE None,
                   fitting |-> IsNone(raised)]
    /\ UNCHANGED <<caller, est, results, disk, heap, batch>>

\* The command line with every bootstrap method, over tables that carry a grouper
\* and tables that do not, and over simulated data.
BsMethods == {"pct_res", "data", "stratified", "Stratified"}
CallMain ==
    /\ ret.op = "none"
    /\ \E seq_table \in {None} \cup {Some(p) : p \in TablePaths}, simu_data \in {None, Some("simu/")},
          bs_method \in BsMethods, bootstrap_num \in BootstrapNums, bs_record_num \in RecordNums :
            Main([seq_table |-> seq_table, simu_data |-> simu_data, bs_method |-> bs_method,
                  bootstrap_num |-> bootstrap_num, bs_record_num |-> bs_record_num])
NextMain == CallMain
SpecMain == Init /\ [][NextMain]_vars

(***************************************************************************)
(* Claims.                                                                 *)
(***************************************************************************)
AllNaN(vals) == \A i \in 1..Len(vals) : vals[i] = NaN
NoNaN(vals) == \A i \in 1..Len(vals) : vals[i] # NaN
EffectiveParameters == get_func_params(Get(update_none(ret.kw.model, Some(est.model))))

\* C1: when the try block of _fit fails (RuntimeError, ValueError or any other
\* exception), point_estimate does not raise; it returns params of length P, all
\* NaN, a P-by-P covariance, all NaN, and one NaN per configured metric; and no
\* result of point_estimate mixes fitted values with NaN fill.
C1_NaNOnFailure ==
    ret.op = "point_estimate" =>
        /\ ret.attempt.exc # "none" =>
              /\ IsNone(ret.raised) /\ ~IsNone(ret.value)
              /\ LET v == Get(ret.value)
                     P == Len(EffectiveParameters)
                     mt == MetricNames(est, ret.kw)
                 IN  /\ Len(v.params.data) = P /\ AllNaN(v.params.data)
                     /\ Len(v.pcov.data) = P
                     /\ \A i \in 1..P : Len(v.pcov.data[i]) = P /\ AllNaN(v.pcov.data[i])
                     /\ IF mt = <<>> THEN IsNone(v.metrics)
                        ELSE /\ ~IsNone(v.metrics)
                             /\ Get(v.metrics).index = mt
                             /\ Len(Get(v.metrics).data) = Len(mt)
                             /\ AllNaN(Get(v.metrics).data)
        /\ ~IsNone(ret.value) =>
              LET v == Get(ret.value)
                  filled == AllNaN(v.params.data)
              IN  /\ filled \/ NoNaN(v.params.data)
                  /\ \A i \in 1..Len(v.pcov.data) :
                        IF filled THEN AllNaN(v.pcov.data[i]) ELSE NoNaN(v.pcov.data[i])
                  /\ ~IsNone(v.metrics) =>
                        IF filled THEN AllNaN(Get(v.metrics).data) ELSE NoNaN(Get(v.metrics).data)

C1_Witness ==
    /\ ret.op = "point_estimate"
    /\ ret.attempt.exc = "Other" /\ ret.attempt.at = "curve_fit"
    /\ Len(EffectiveParameters) = 2
    /\ ~IsNone(ret.value)
    /\ ~IsNone(Get(ret.value).metrics)
    /\ AllNaN(Get(ret.value).params.data)

\* The bs_record_num in effect in the latest run_bootstrap call, and whether the
\* caller ever wrote one (at construction or in the call).
EffectiveRecordNum == RecordNum(est, ret.kw)
RecordNumNeverSet == "bs_record_num" \notin caller.given /\ IsNone(ret.kw.bs_record_num)
ReturnedRecords == Get(ret.value).results

\* C7 (as stated): run_bootstrap keeps every record row the bootstrap produced
\* when bs_record_num is negative or was never set by the caller.
C7_Original ==
    (ret.op = "run_bootstrap"
        /\ (RecordNumNeverSet \/ (~IsNone(EffectiveRecordNum) /\ Get(EffectiveRecordNum) < 0))) =>
        /\ IsNone(ret.raised)
        /\ ReturnedRecords = ret.full

\* C7 (amended): run_bootstrap keeps every record row the bootstrap produced
\* when bs_record_num is negative; when the caller never set it, the default 0
\* is in effect and no record row is kept.
C7_NegativeKeepsAll ==
    ret.op = "run_bootstrap" =>
        /\ (~IsNone(EffectiveRecordNum) /\ Get(EffectiveRecordNum) < 0) =>
              /\ IsNone(ret.raised)
              /\ ReturnedRecords = ret.full
        /\ RecordNumNeverSet =>
              /\ IsNone(ret.raised)
              /\ EffectiveRecordNum = Some(0)
              /\ Len(ReturnedRecords.data) = 0
              /\ ReturnedRecords.columns = ret.full.columns

C7_Witness ==
    /\ ret.op = "run_bootstrap"
    /\ EffectiveRecordNum = Some(-1)
    /\ Len(ret.full.data) >= 2
    /\ IsNone(ret.raised)
    /\ ReturnedRecords = ret.full

Kept(y) == {i \in 1..Len(y) : y[i] # 0}
RankIn(S, i) == Cardinality({k \in S : k <= i})
FitReturned == ret'.op = "fit"

\* The file the resume check of the call consults, and whether from_json reads it through.
Consulted(e, kw, d) == d[Get(ResumePath(e, kw))]
Readable(file) == file.kind = "json" /\ IsNone(FromJsonError(file.doc))
ResumeRequested(e, kw) == ~IsNone(ResumePath(e, kw)) /\ Overwrite(e, kw) = FALSE

\* The stages the flags of a call ask for.
Requested(flags) ==
    (IF flags.point_estimate THEN {"point_estimate"} ELSE {})
    \cup (IF flags.bootstrap THEN {"bootstrap"} ELSE {})
    \cup (IF flags.replicates THEN {"replicates"} ELSE {})
    \cup (IF flags.convergence_test THEN {"convergence_test"} ELSE {})

\* C2: a fit() call with a save_to path and overwrite false that finds a readable
\* result file at that path runs no stage (the estimator and its bootstrap are
\* untouched, nothing is raised), sets the estimator's results to what from_json
\* loads from the file, and leaves every file as it was.
C2_ResumeSkipsFitting ==
    [][(/\ FitReturned
        /\ ResumeRequested(est, ret'.kw)
        /\ Consulted(est, ret'.kw, disk).kind # "absent"
        /\ Readable(Consulted(est, ret'.kw, disk)))
       => /\ ret'.resumed /\ ret'.stages = {} /\ IsNone(ret'.raised)
          /\ est' = est
          /\ results' = FromJsonValue(Consulted(est, ret'.kw, disk).doc, NewResults(est))
          /\ disk' = disk]_vars
\* A fit() asking for every stage resumed from the file an earlier fit() of the
\* same estimator wrote to its own save_to.
C2_Witness ==
    /\ ret.op = "fit" /\ ret.resumed /\ ret.flags = Flags(TRUE, TRUE, TRUE, TRUE)
    /\ IsNone(ret.kw.save_to) /\ est.save_to = Some("a")
    /\ disk["a"].kind = "json"
    /\ ~IsNone(results.point_estimation.params)

\* C3 as stated: a fit() call that finds an existing file it cannot read through
\* (no JSON, a missing key, a leaf that is no table) raises nothing and runs the
\* stages it was asked for.
C3_Original ==
    [][(/\ FitReturned
        /\ ResumeRequested(est, ret'.kw)
        /\ Consulted(est, ret'.kw, disk).kind # "absent"
        /\ ~Readable(Consulted(est, ret'.kw, disk)))
       => /\ IsNone(ret'.raised)
          /\ ~ret'.resumed
          /\ ret'.stages = Requested(ret'.flags)]_vars

\* C4 as stated: a fit() call that runs its stages with a save path in effect (the
\* path the resume check consulted) has written its results to that path when it
\* returns.
C4_Original ==
    [][(/\ FitReturned
        /\ ~ret'.resumed /\ IsNone(ret'.raised)
        /\ ~IsNone(ResumePath(est, ret'.kw)))
       => disk'[Get(ResumePath(est, ret'.kw))] = JsonFile(to_json(results'))]_vars

\* The result fields of the round trip claim, in one order.
ResultFields(r) ==
    <<r.point_estimation.params, r.point_estimation.pcov, r.uncertainty.summary,
      r.uncertainty.bs_records, r.uncertainty.rep_results, r.convergence.summary,
      r.convergence.records>>

\* A value cut to its first ten decimals; NaN stays NaN.
TenDecimals(c) == IF c = NaN THEN NaN ELSE c - (c % 2)
TenDecimalsOf(o) ==
    IF o.typ = "DataFrame"
    THEN [i \in 1..Len(o.data) |-> [j \in 1..Len(o.data[i]) |-> TenDecimals(o.data[i][j])]]
    ELSE [i \in 1..Len(o.data) |-> TenDecimals(o.data[i])]

C6_Original ==
    (ret.op = "round_trip") =>
        \A k \in {"x_data", "y_data", "sigma", "x_label", "y_label"} :
            ~IsNone(results.data[k]) =>
                /\ ~IsNone(ret.doc.data[k])
                /\ ret.value.data[k] = results.data[k]

\* C11: a constructor call with len(x_data) # len(y_data) raises the shape error
\* (ValueError 'Shapes of x and y do not match'), whatever the other arguments are
\* (it comes before the mask and before sigma is indexed); no estimator exists
\* afterwards, nothing of the data is stored, and there is no FitResults.
C11_ShapeMismatch ==
    (ret.op = "init" /\ Len_(ret.args.x_data) # Len_(ret.args.y_data)) =>
        /\ ret.raised = Some("ValueError")
        /\ est = [NoEstimator EXCEPT !.state = "failed"]
        /\ results = EmptyResults(NoData)
\* A call with two x values, three y values, exclude_zero set and a sigma of a
\* third length has failed with the shape error.
C11_Witness ==
    /\ ret.op = "init" /\ ret.raised = Some("ValueError")
    /\ Len_(ret.args.x_data) = 2 /\ Len_(ret.args.y_data) = 3
    /\ ret.args.exclude_zero
    /\ ~IsNone(ret.args.sigma) /\ Len_(Get(ret.args.sigma)) = 4
    /\ est.state = "failed"

\* A from_json call on a JSON document has returned or raised.
Loaded == ret.op = "from_json" /\ ret.file.kind = "json"
\* The block of the loaded document, and whether the document has it.
Has(doc, b) == b \in DOMAIN doc
\* Every leaf the document holds is null or a table.
IsTableOrNull(leaf) == IsNone(leaf) \/ Get(leaf).typ \in {"json", "str"}
OnlyTables(doc) ==
    \A b \in DOMAIN doc : \A k \in DOMAIN doc[b] : IsTableOrNull(doc[b][k])
\* Every block the document holds is an object with the keys from_json subscripts:
\* all of them but rep_results, and at least one alias of the record tables.
AllKeys(doc) ==
    /\ Has(doc, "point_estimation") => {"params", "pcov"} \subseteq DOMAIN doc.point_estimation
    /\ Has(doc, "uncertainty") =>
          /\ "summary" \in DOMAIN doc.uncertainty
          /\ RecordAliases \cap DOMAIN doc.uncertainty # {}
    /\ Has(doc, "convergence") =>
          /\ "summary" \in DOMAIN doc.convergence
          /\ {"record", "records"} \cap DOMAIN doc.convergence # {}
    /\ Has(doc, "data") => DataKeys \subseteq DOMAIN doc.data
\* The alias the record table is read from: the first one present.
FirstAlias(block) ==
    IF "record" \in DOMAIN block THEN "record"
    ELSE IF "records" \in DOMAIN block THEN "records" ELSE "bs_records"
\* The field a leaf is to give: unset for an absent block, an absent key or a null
\* leaf, else the table of the leaf as a Series or a DataFrame.
Restored(doc, b, k, typ) ==
    IF ~Has(doc, b) THEN None
    ELSE IF k \notin DOMAIN doc[b] THEN None
    ELSE IF IsNone(doc[b][k]) THEN None
    ELSE Some(Obj(typ, Get(doc[b][k]).index, Get(doc[b][k]).columns, Get(doc[b][k]).data))
RestoredLabel(doc, k) ==
    IF ~Has(doc, "data") THEN None
    ELSE IF IsNone(doc.data[k]) THEN None ELSE Some(Get(doc.data[k]).data[1])
AllRestored(doc, v) ==
    /\ v.point_estimation.params = Restored(doc, "point_estimation", "params", "Series")
    /\ v.point_estimation.pcov = Restored(doc, "point_estimation", "pcov", "DataFrame")
    /\ v.uncertainty.summary = Restored(doc, "uncertainty", "summary", "Series")
    /\ v.uncertainty.bs_records =
          IF Has(doc, "uncertainty")
          THEN Restored(doc, "uncertainty", FirstAlias(doc.uncertainty), "DataFrame") ELSE None
    /\ v.uncertainty.rep_results = Restored(doc, "uncertainty", "rep_results", "DataFrame")
    /\ v.convergence.summary = Restored(doc, "convergence", "summary", "Series")
    /\ v.convergence.records =
          IF Has(doc, "convergence")
          THEN Restored(doc, "convergence", FirstAlias(doc.convergence), "DataFrame") ELSE None
    /\ v.data.x_data = Restored(doc, "data", "x_data", "Series")
    /\ v.data.y_data = Restored(doc, "data", "y_data", "Series")
    /\ v.data.sigma = Restored(doc, "data", "sigma", "Series")
    /\ v.data.x_label = RestoredLabel(doc, "x_label")
    /\ v.data.y_label = RestoredLabel(doc, "y_label")

\* C12 as stated: loading a document whose blocks, and whose leaves inside a
\* present block, are absent or null (every leaf that is there being a table)
\* raises nothing.
C12_Original == (Loaded /\ OnlyTables(ret.file.doc)) => IsNone(ret.raised)

\* C12: loading a document in which any block is absent and any leaf of a present
\* block is null (rep_results may also be missing) raises nothing, leaves the
\* fields of absent blocks and null leaves unset and restores every present leaf,
\* provided every present block is an object holding its other keys; a null block
\* or a missing key makes from_json raise.
C12_PartialPayload ==
    (Loaded /\ OnlyTables(ret.file.doc)) =>
        IF AllKeys(ret.file.doc)
        THEN IsNone(ret.raised) /\ AllRestored(ret.file.doc, Get(ret.value))
        ELSE ~IsNone(ret.raised) /\ IsNone(ret.value)
\* A document without point_estimation, with null leaves in its uncertainty block
\* and no rep_results key, and with a data block, has been loaded.
C12_Witness ==
    /\ Loaded /\ IsNone(ret.raised)
    /\ ~Has(ret.file.doc, "point_estimation")
    /\ Has(ret.file.doc, "uncertainty") /\ DOMAIN ret.file.doc.uncertainty = {"summary", "bs_records"}
    /\ IsNone(ret.file.doc.uncertainty.summary)
    /\ Has(ret.file.doc, "data")
    /\ Get(ret.value).data.x_data = Some(Series(<<"k">>, <<2>>))
    /\ IsNone(Get(ret.value).point_estimation.params)
    /\ IsNone(Get(ret.value).uncertainty.bs_records)

\* C13: when the uncertainty block holds the bootstrap record table under one of
\* record, records, bs_records, and the convergence block its record table under
\* one of record, records, from_json raises nothing and restores the table found
\* under that key, the same table whatever the key is called.
C13_Aliases ==
    (Loaded /\ OnlyTables(ret.file.doc) /\ AllKeys(ret.file.doc)) =>
        /\ IsNone(ret.raised)
        /\ Has(ret.file.doc, "uncertainty") =>
              \A a \in RecordAliases :
                 (RecordAliases \cap DOMAIN ret.file.doc.uncertainty = {a}) =>
                    Get(ret.value).uncertainty.bs_records
                       = Restored(ret.file.doc, "uncertainty", a, "DataFrame")
        /\ Has(ret.file.doc, "convergence") =>
              \A a \in {"record", "records"} :
                 ({"record", "records"} \cap DOMAIN ret.file.doc.convergence = {a}) =>
                    Get(ret.value).convergence.records
                       = Restored(ret.file.doc, "convergence", a, "DataFrame")
\* A document with its bootstrap records under bs_records and its convergence
\* records under record has been loaded, both tables restored.
C13_Witness ==
    /\ Loaded /\ IsNone(ret.raised)
    /\ Has(ret.file.doc, "uncertainty") /\ Has(ret.file.doc, "convergence")
    /\ RecordAliases \cap DOMAIN ret.file.doc.uncertainty = {"bs_records"}
    /\ DOMAIN ret.file.doc.convergence = {"summary", "record"}
    /\ Get(ret.value).uncertainty.bs_records = Some(DataFrame(<<"0">>, <<"k">>, <<<<12>>>>))
    /\ Get(ret.value).convergence.records = Some(DataFrame(<<"0">>, <<"k">>, <<<<8>>>>))

\* The file cannot be parsed: it is no JSON, or one of its leaves is no table.
Corrupt(file) ==
    \/ file.kind # "json"
    \/ ~OnlyTables(file.doc)

\* C14: from_json on a file that is no JSON, or on a document with a leaf that is
\* no table, raises to its caller and returns nothing; and whenever from_json
\* returns a FitResults, every leaf the document holds is restored in it: no block
\* is dropped silently.
C14_FailureReported ==
    (ret.op = "from_json") =>
        /\ Corrupt(ret.file) => ~IsNone(ret.raised)
        /\ ~IsNone(ret.raised) => IsNone(ret.value)
        /\ IsNone(ret.raised) => AllRestored(ret.file.doc, Get(ret.value))
\* A document whose params leaf is no table, with a data block after it, has been
\* refused with an exception and no FitResults.
C14_Witness ==
    /\ ret.op = "from_json" /\ ret.file.kind = "json"
    /\ Has(ret.file.doc, "point_estimation") /\ Has(ret.file.doc, "data")
    /\ ret.file.doc.point_estimation = [params |-> Some(BadTable), pcov |-> None]
    /\ ret.raised = Some("ValueError") /\ IsNone(ret.value)

C16_Original ==
    [][(/\ FitReturned
        /\ Overwrite(est, ret'.kw) = TRUE
        /\ ~IsNone(ResumePath(est, ret'.kw)))
       => /\ IsNone(ret'.raised) /\ ~ret'.resumed
          /\ ret'.stages = Requested(ret'.flags)
          /\ disk'[Get(ResumePath(est, ret'.kw))] = JsonFile(to_json(results'))]_vars

\* The bootstrap has nothing to resample: bootstrap_num <= 0 or fewer than 2 points.
NothingToResample(e, num) == num <= 0 \/ Len_(e.x_data) < 2

\* C17 as stated: run_bootstrap on an estimator whose bootstrap_num in effect is
\* <= 0, or whose data has fewer than 2 points, raises nothing and returns no
\* record row and no summary entry.
C17_Original ==
    (ret.op = "run_bootstrap" /\ NothingToResample(est, Get(est.bootstrap).bootstrap_num)) =>
        /\ IsNone(ret.raised)
        /\ Len(Get(ret.value).results.data) = 0
        /\ Len(Get(ret.value).summary.data) = 0

\* The table the command line names carries a grouper.
TableCarriesGrouper(a) ==
    ~IsNone(a.seq_table) /\ IsNone(GrouperLookup(read_pickle(Get(a.seq_table))).raised)

\* C18 as stated, for the command-line entry point: a stratified bootstrap whose
\* sequence table carries no grouper fails before any fit, and one whose loaded
\* sequence table carries a grouper proceeds to the fit with that grouper.
C18_Original ==
    (ret.op = "main" /\ Lower(ret.args.bs_method) = "stratified" /\ IsNone(ReadTableError(ret.args))) =>
        IF TableCarriesGrouper(ret.args)
        THEN /\ IsNone(ret.raised) /\ ret.fitting
             /\ ret.grouper = read_pickle(Get(ret.args.seq_table)).group
        ELSE ~IsNone(ret.raised) /\ ~ret.fitting

\* The names the model declares: its required arguments after x, in order.
DeclaredNames(model) == IF model = "exp" THEN <<"k">> ELSE <<"k", "A">>
ModelInEffect == IF IsNone(ret.kw.model) THEN est.model ELSE Get(ret.kw.model)
Square(frame, n) == Len(frame.data) = n /\ \A i \in 1..Len(frame.data) : Len(frame.data[i]) = n

\* C19: every result point_estimate returns, fitted or NaN-filled, has params
\* indexed by exactly the declared parameter names of the model in effect, one
\* value per name, and a square covariance whose rows and columns both carry
\* that same list of names.
C19_DeclaredNames ==
    (ret.op = "point_estimate" /\ ~IsNone(ret.value)) =>
        LET v == Get(ret.value)
            names == DeclaredNames(ModelInEffect)
        IN  /\ v.params.index = names
            /\ Len(v.params.data) = Len(names)
            /\ v.pcov.index = names
            /\ v.pcov.columns = names
            /\ Square(v.pcov, Len(names))

\* A failed fit returns a two-parameter result for a model given in the call that
\* differs from the constructor's, with a guess that has not one value per name.
C19_Witness ==
    /\ ret.op = "point_estimate" /\ ~IsNone(ret.value)
    /\ ret.attempt.exc # "none"
    /\ est.model = "exp" /\ ret.kw.model = Some("byo")
    /\ ~IsNone(ret.p0) /\ Len_(Get(ret.p0)) = 1
    /\ Get(ret.value).pcov.columns = <<"k", "A">>

\* One np.random.random() per parameter of the model in effect.
FreshGuess(p0) ==
    /\ p0.typ = "list"
    /\ Len_(p0) = Len(DeclaredNames(ModelInEffect))
    /\ \A i \in 1..Len_(p0) : p0.data[i] \in Draws

\* C20: point_estimate hands the solver the initial guess of the call if the
\* call gives one, else the one given at construction if there is one, and a
\* fresh guess of one uniform(0,1) draw per model parameter only when neither is
\* given; a guess the caller supplied is never replaced by a random one.
C20_Original ==
    ret.op = "point_estimate" =>
        LET call == ret.kw.init_guess
            configured == est.init_guess
        IN  /\ ~IsNone(call) => (ret.p0 = call /\ ~ret.drawn)
            /\ (IsNone(call) /\ ~IsNone(configured)) => (ret.p0 = configured /\ ~ret.drawn)
            /\ (IsNone(call) /\ IsNone(configured)) =>
                  (ret.drawn /\ ~IsNone(ret.p0) /\ FreshGuess(Get(ret.p0)))

\* The fitting data an estimator stores.
StoredData(e) == [x_data |-> e.x_data, y_data |-> e.y_data, sigma |-> e.sigma]

\* C21: once constructed, no operation (point_estimate with or without data of
\* the call, run_bootstrap, run_replicates, convergence_test, fit) changes the
\* x_data, y_data or sigma the estimator stores; a point estimate leaves the
\* whole estimator as it was, and one that passes no data of its own reads the
\* data stored at construction, whatever earlier calls passed.
C21_StoredDataFixed ==
    [][est.state = "ok" =>
         /\ StoredData(est') = StoredData(est)
         /\ StoredData(est') = StoredData(Constructed(caller))
         /\ ret'.op = "point_estimate" =>
               /\ est' = est
               /\ IsNone(ret'.kw.x_data) => ret'.used.x_data = Constructed(caller).x_data
               /\ IsNone(ret'.kw.y_data) => ret'.used.y_data = Constructed(caller).y_data
               /\ (IsNone(ret'.kw.sigma) /\ IsNone(ret'.kw.x_data)) =>
                     ret'.used.sigma = Some(Constructed(caller).sigma)]_vars

\* A point estimate has run on x, y and sigma of the call, different from the
\* zero-filtered data the estimator keeps, after a bootstrap and a convergence
\* test changed their own settings.
C21_Witness ==
    /\ ret.op = "point_estimate"
    /\ ~IsNone(ret.kw.x_data) /\ ~IsNone(ret.kw.sigma)
    /\ ret.used.x_data # est.x_data
    /\ est.exclude_zero /\ Len_(est.x_data) = 2
    /\ est.conv_reps = 2
    /\ Get(est.bootstrap).bootstrap_num = 1

\* C22: the fit input a FitResults holds is a copy: a write into the estimator's
\* x_data, y_data or sigma, or into the sequences the caller passed, leaves
\* FitResults.data as it was, and a write into FitResults.data leaves the
\* estimator's data as it was.
C22_FitInputCopied ==
    [][ret'.op = "mutate" =>
         /\ ret'.holder \in {"caller", "estimator"} => results'.data = results.data
         /\ ret'.holder = "results" => StoredData(est') = StoredData(est)]_vars

\* The estimator was built on arrays without zero filtering, its x_data has
\* been written to, and the copy in the results still has the value passed in.
C22_Witness ==
    /\ ret.op = "mutate" /\ ret.holder = "estimator" /\ ret.field = "x_data"
    /\ caller.x_data.typ = "ndarray" /\ ~est.exclude_zero
    /\ est.x_data.data = <<9, 2>>
    /\ Get(results.data.x_data).data = <<0, 2>>
    /\ caller.x_data.data = <<0, 2>>

\* C23: for every integer rnd_seed in effect for a fit() call (the call's, else
\* the estimator's; 0 included), fit() sets the random generator to that seed
\* before it runs any stage, so that runs with the same inputs and seed draw
\* the same guesses and resamples.
C23_Original ==
    [][(FitReturned /\ ~ret'.resumed /\ ~IsNone(SeedInEffect(est, ret'.kw))) =>
          ret'.seeded = SeedInEffect(est, ret'.kw)]_vars

\* The data vectors of the table: one (y, sigma) pair per row.
RowVectors(table) == {<<table[i].y, table[i].sigma>> : i \in 1..Len(table)}

\* C24: after a batch fit with deduplicate on, the number of fits executed is the
\* number of distinct (y, sigma) row vectors of the table, and two identifiers
\* have their summary row from the same fit exactly when their rows agree in
\* every entry of y and sigma.
C24_Deduplication ==
    (batch.state = "done" /\ batch.opts.deduplicate) =>
        /\ batch.fits = Cardinality(RowVectors(batch.table))
        /\ Len(batch.summary) = Len(batch.table)
        /\ \A i, j \in 1..Len(batch.table) :
             /\ (batch.summary[i].task = batch.summary[j].task)
                  <=> (batch.table[i].y = batch.table[j].y /\ batch.table[i].sigma = batch.table[j].sigma)
             /\ batch.summary[i].task = batch.summary[j].task
                  => batch.summary[i].values = batch.summary[j].values

\* A deduplicated run over two identical rows and a row that differs in sigma
\* only: two fits, three summary rows.
C24_Witness ==
    /\ batch.state = "done" /\ batch.opts.deduplicate
    /\ batch.table = <<RowA("s1"), RowC("s2"), RowA("s3")>>
    /\ batch.fits = 2
    /\ Len(batch.summary) = 3
    /\ batch.summary[1].task = batch.summary[3].task
    /\ batch.summary[1].task # batch.summary[2].task

\* C25: whatever the order in which the workers complete, with or without
\* deduplication, the summary table has one row per row of the input table,
\* carrying the identifiers of the input table in its row order.
C25_SummaryInTableOrder ==
    batch.state = "done" =>
        /\ Len(batch.summary) = Len(batch.table)
        /\ \A i \in 1..Len(batch.table) : batch.summary[i].id = batch.table[i].id

\* The last row's task completed first, and a deduplicated run whose tasks
\* completed out of order.
C25_Witness ==
    /\ batch.state = "done"
    /\ batch.opts.deduplicate
    /\ Len(batch.order) = 2 /\ batch.order[1] > batch.order[2]
    /\ Len(batch.summary) = 3

\* C27: a numerical fault or a worker crash on one row does not abort the
\* batch: every task still gets a result; the failed task's is NaN-filled, and
\* every other task's is the result of fitting that row's data alone.
C27_FailureContained ==
    /\ batch.state # "aborted"
    /\ batch.state = "done" =>
         \A k \in Tasks(batch.table, batch.opts.deduplicate) :
            /\ ~IsNone(batch.done[k])
            /\ batch.outcome[k] \in {"fault", "crash"} => AllNaN(Flatten(Get(batch.done[k])))
            /\ batch.outcome[k] = "ok" =>
                 Get(batch.done[k]) = WorkerResults(batch.table[k], "ok")

\* A batch that completed although one worker crashed and one fit failed
\* numerically, the third row fit as usual.
C27_Witness ==
    /\ batch.state = "done"
    /\ \E i, j, k \in 1..Len(batch.table) :
         /\ batch.outcome[i] = "crash" /\ batch.outcome[j] = "fault" /\ batch.outcome[k] = "ok"
         /\ batch.order[1] = i
         /\ AllNaN(batch.summary[i].values) /\ ~AllNaN(batch.summary[k].values)

\* A run with stream_to_disk and overwrite=False that follows a complete run
\* with the same arguments.
SecondRun ==
    /\ batch.state = "done"
    /\ batch.opts.stream /\ ~batch.opts.overwrite
    /\ ~IsNone(batch.prev)
    /\ Get(batch.prev).opts = batch.opts
    /\ \A k \in 1..Len(batch.table) : Get(batch.prev).outcome[k] # "crash"

\* In a run with stream_to_disk and overwrite=False, exactly the tasks whose row
\* had no file when the run started are fit; the others are loaded.
OnlyMissingFit ==
    (batch.state = "done" /\ batch.opts.stream /\ ~batch.opts.overwrite) =>
        \A k \in Tasks(batch.table, batch.opts.deduplicate) :
            (batch.outcome[k] = "loaded") <=> (k \in batch.had)

\* The values of a summary after one pass through the result files.
AsSaved(summary) ==
    [i \in 1..Len(summary) |->
        [summary[i] EXCEPT !.values = [j \in 1..Len(summary[i].values) |->
                                          EncodeFloat(summary[i].values[j])]]]

StagesAsked(e, flags) ==
    (IF flags.point_estimate THEN {"point_estimate"} ELSE {})
    \cup (IF flags.bootstrap /\ Len_(e.x_data) >= 2 THEN {"bootstrap"} ELSE {})
    \cup (IF flags.replicates THEN {"replicates"} ELSE {})
    \cup (IF flags.convergence_test THEN {"convergence_test"} ELSE {})

\* The document holds what each of the stages wrote into the results.
HoldsStages(doc, stages) ==
    /\ "point_estimate" \in stages =>
          ~IsNone(doc.point_estimation.params) /\ ~IsNone(doc.point_estimation.pcov)
    /\ "bootstrap" \in stages =>
          ~IsNone(doc.uncertainty.bs_records) /\ ~IsNone(doc.uncertainty.summary)
    /\ "replicates" \in stages =>
          ~IsNone(doc.uncertainty.rep_results) /\ ~IsNone(doc.uncertainty.summary)
    /\ "convergence_test" \in stages =>
          ~IsNone(doc.convergence.summary) /\ ~IsNone(doc.convergence.records)

\* C28: the FitResults of a new estimator has every point-estimation,
\* uncertainty and convergence field unset; a fit() call that is not resumed
\* runs the stages asked for and writes the file after them, so the file it
\* writes is the JSON form of the results it returns with and holds the output
\* of every stage that ran; a call that fails writes nothing.
C28_StagesThenSave ==
    [][/\ (est.state = "none" /\ est'.state = "ok") =>
             /\ results'.point_estimation = [params |-> None, pcov |-> None]
             /\ results'.uncertainty = [summary |-> None, bs_records |-> None, rep_results |-> None]
             /\ results'.convergence = [summary |-> None, records |-> None]
       /\ (FitReturned /\ ~ret'.resumed /\ IsNone(ret'.raised)) =>
             /\ ret'.stages = StagesAsked(est, ret'.flags)
             /\ ~IsNone(ret'.saved) =>
                   /\ disk'[Get(ret'.saved)] = JsonFile(to_json(results'))
                   /\ HoldsStages(disk'[Get(ret'.saved)].doc, ret'.stages)
       /\ (FitReturned /\ ~IsNone(ret'.raised)) => (IsNone(ret'.saved) /\ disk' = disk)]_vars

\* A fit() call that ran all four stages and then wrote its file.
C28_Witness ==
    /\ ret.op = "fit" /\ ~ret.resumed /\ IsNone(ret.raised)
    /\ ret.stages = {"point_estimate", "bootstrap", "replicates", "convergence_test"}
    /\ ~IsNone(ret.saved)
    /\ disk[Get(ret.saved)].kind = "json"
    /\ HoldsStages(disk[Get(ret.saved)].doc, ret.stages)

\* C29: when curve_fit returns and a metric function then raises, whatever it
\* raises, point_estimate does not raise and returns none of curve_fit's
\* values: params, covariance and every metric are NaN, the same value it
\* returns when curve_fit itself raises that exception.
C29_MetricFailureIsNaN ==
    (ret.op = "point_estimate" /\ ret.attempt.at = "metric") =>
        /\ IsNone(ret.raised)
        /\ ~IsNone(ret.value)
        /\ LET v == Get(ret.value)
           IN  /\ v.params.index = ret.parameters /\ AllNaN(v.params.data)
               /\ \A i \in 1..Len(v.params.data) : v.params.data[i] # ret.attempt.params[i]
               /\ Len(v.pcov.data) = Len(ret.parameters)
               /\ \A i \in 1..Len(v.pcov.data) : AllNaN(v.pcov.data[i])
               /\ ~IsNone(v.metrics) /\ AllNaN(Get(v.metrics).data)
               /\ Get(v.metrics).index = Get(ret.metrics)
               /\ v = FitDict(ret.parameters, ret.metrics, [ret.attempt EXCEPT !.at = "curve_fit"])

\* point_estimate with two metrics returned NaN after a metric raised an
\* exception that is neither RuntimeError nor ValueError.
C29_Witness ==
    /\ ret.op = "point_estimate" /\ ret.attempt.at = "metric" /\ ret.attempt.exc = "Other"
    /\ IsNone(ret.raised) /\ ~IsNone(ret.value)
    /\ Len(Get(Get(ret.value).metrics).data) = 2
    /\ AllNaN(Get(ret.value).params.data)

\* The x_data and the sigma a point_estimate call starts from: the call's where
\* it passes one, else the estimator's.
XGiven == IF IsNone(ret.kw.x_data) THEN est.x_data ELSE Get(ret.kw.x_data)
SigmaGiven == IF IsNone(ret.kw.sigma) THEN est.sigma ELSE Get(ret.kw.sigma)

\* C30: a point_estimate call whose sigma in effect has another length than its
\* x_data in effect raises nothing and hands curve_fit no sigma; a call whose
\* sigma has the length of x_data hands curve_fit that sigma, unchanged.
C30_SigmaLength ==
    ret.op = "point_estimate" =>
        /\ ret.used.x_data = XGiven
        /\ IF Len(XGiven.data) # Len(SigmaGiven.data)
           THEN IsNone(ret.raised) /\ ~IsNone(ret.value) /\ IsNone(ret.used.sigma)
           ELSE ret.used.sigma = Some(SigmaGiven)

\* The stored sigma of three points met an x_data of two points passed to the
\* call, and the fit ran without sigma and returned fitted values.
C30_Witness ==
    /\ ret.op = "point_estimate"
    /\ IsNone(ret.kw.sigma) /\ ~IsNone(ret.kw.x_data)
    /\ Len(est.sigma.data) = 3 /\ Len(Get(ret.kw.x_data).data) = 2
    /\ IsNone(ret.used.sigma)
    /\ ret.attempt.exc = "none" /\ IsNone(ret.raised)

=============================================================================
